---- MODULE Spec2Model ----
(***************************************************************************)
(* libbtrfsutil-Go: the HasNext/GetNext subvolume iterators of package     *)
(* btrfsutil (SubvolumeIterator, SubvolumeInfoIterator) over a Btrfs       *)
(* subvolume tree, the one-shot subvolume operations, the quota-group      *)
(* inheritance specifier and the status-code table.  The Go functions are  *)
(* modelled from their source; the libbtrfsutil calls they make through    *)
(* cgo are modelled as that library behaves: the iterator as a stack of    *)
(* search entries, each holding the ROOT_REF items its last search         *)
(* buffered.                                                               *)
(***************************************************************************)
EXTENDS Integers, Sequences, FiniteSets, TLC

\* ---------------------------------------------------------------- bounds
\* Subvolumes the filesystem holds at most.
MaxSubvols == 3
\* Subvolumes the filesystem holds at most where faults happen.
MaxFaultSubvols == 2
\* Faults while an iterator is in use, at most: subvolumes another caller
\* deletes and tree searches that fail (BTRFS_UTIL_ERROR_SEARCH_FAILED).
MaxFaults == 1
\* HasNext calls on one iterator, at most.
MaxCalls == 6
\* The highest status code handed to getError.
MaxCode == 40
\* AddGroup calls on one QgroupInherit, at most.
MaxGroups == 3
MaxDestroys == 2
\* The highest generation the filesystem reaches.
MaxGeneration == 3

\* ------------------------------------------------------- program constants
\* The id of the filesystem's top-level subvolume.
FS_TREE == 5
\* The id of the first subvolume created in a fresh filesystem.
FirstSubvolId == 256

\* The generation in the superblock of a filesystem just made.
FirstGeneration == 1
BTRFS_UTIL_OK == 0
BTRFS_UTIL_ERROR_STOP_ITERATION == 1
BTRFS_UTIL_ERROR_NO_MEMORY == 2
BTRFS_UTIL_ERROR_NOT_SUBVOLUME == 5
BTRFS_UTIL_ERROR_SUBVOLUME_NOT_FOUND == 6
BTRFS_UTIL_ERROR_OPEN_FAILED == 7
BTRFS_UTIL_ERROR_SEARCH_FAILED == 12
BTRFS_UTIL_ERROR_SNAP_DESTROY_FAILED == 18
BTRFS_UTIL_ERROR_DEFAULT_SUBVOL_FAILED == 19
BTRFS_UTIL_ERROR_WAIT_SYNC_FAILED == 22

\* A nil error.
Nil == "nil"
ErrStopIteration == "ErrStopIteration"
ErrNotSubvolume == "ErrNotSubvolume"
ErrSubvolumeNotFound == "ErrSubvolumeNotFound"
ErrSearchFailed == "ErrSearchFailed"

\* errors.go: errorMap, the codes 1..26 in order.
errorMap ==
  << ErrStopIteration, "ErrNoMemory", "ErrInvalidArgument", "ErrNotBtrfs",
     ErrNotSubvolume, ErrSubvolumeNotFound, "ErrOpenFailed", "ErrRmdirFailed",
     "ErrUnlinkFailed", "ErrStatFailed", "ErrStatfsFailed", ErrSearchFailed,
     "ErrInoLookupFailed", "ErrSubvolGetflagsFailed", "ErrSubvolSetflagsFailed",
     "ErrSubvolCreateFailed", "ErrSnapCreateFailed", "ErrSnapDestroyFailed",
     "ErrDefaultSubvolFailed", "ErrSyncFailed", "ErrStartSyncFailed",
     "ErrWaitSyncFailed", "ErrGetSubvolInfoFailed", "ErrGetSubvolRootrefFailed",
     "ErrInoLookupUserFailed", "ErrFsInfoFailed" >>

\* errors.go: getError.  A Go map lookup of a missing key gives the zero
\* value, a nil error.
getError(errInt) ==
  IF errInt # 0
    THEN IF errInt \in DOMAIN errorMap THEN errorMap[errInt] ELSE Nil
    ELSE Nil

\* errors.go: uintMap, the inverse of errorMap, and GetCError: the code of
\* a named error, 0 for anything else.
\* Mutant of uintMap: the position is counted from zero.
uintMapZeroBased(err) == (CHOOSE n \in DOMAIN errorMap : errorMap[n] = err) - 1

uintMap(err) == CHOOSE n \in DOMAIN errorMap : errorMap[n] = err

GetCError(err) ==
  IF \E n \in DOMAIN errorMap : errorMap[n] = err THEN uintMap(err) ELSE 0

\* ------------------------------------------------------------- filesystem
AllIds == FirstSubvolId .. (FirstSubvolId + MaxSubvols - 1)

\* The name each subvolume is created with (subvol1 is 256, as in the tests).
SubvolNames == << "subvol1", "subvol2", "subvol3", "subvol4", "subvol5", "subvol6" >>
Name(id) == SubvolNames[id - FirstSubvolId + 1]

\* The two iterator objects a caller holds.
Slots == {1, 2}

VARIABLES
  parentOf,  \* subvolume id -> id of the subvolume that holds it
  live,      \* the subvolumes that exist
  env,       \* what the environment may still do, and whether it did
  it,        \* slot -> the Go iterator struct (and the C iterator it points to)
  obs,       \* slot -> what the caller has seen of the iterator
  fds,       \* the open file descriptors of the process, and who opened each
  dflt,      \* the id of the filesystem's default subvolume
  deleted,   \* the deleted subvolumes not yet cleaned up, in deletion order
  call,      \* the last one-shot call: its arguments and what it returned
  qg,        \* the caller's QgroupInherit, the C heap blocks behind it
  trans,     \* the filesystem's transactions: on disk, running, committing
  pump       \* the channel-based iterator: its goroutine, channel and consumer

vars == << parentOf, live, env, it, obs, fds, dflt, deleted, call, qg, trans, pump >>

\* What the iterator calls leave alone.
opVars == << dflt, deleted, call, qg, trans, pump >>

\* A nil pointer is <<>>, a pointer to v is <<v>>.
NilPtr == << >>
Ptr(v) == << v >>

\* The ids of the live children of subvolume p above id lo, ascending: the
\* ROOT_REF items (p, ROOT_REF, offset > lo) of the root tree, in key order.
RECURSIVE SortedSeq(_)
SortedSeq(S) ==
  IF S = {} THEN << >>
  ELSE LET m == CHOOSE x \in S : \A y \in S : x <= y
       IN << m >> \o SortedSeq(S \ {m})

\* Mutant of RootRefs: the items come highest id first.
RootRefsDescending(p, lo) ==
  LET up == SortedSeq({c \in live : parentOf[c] = p /\ c > lo})
  IN [i \in 1 .. Len(up) |-> up[Len(up) + 1 - i]]

RootRefs(p, lo) == SortedSeq({c \in live : parentOf[c] = p /\ c > lo})

\* ---------------------------------------------- libbtrfsutil, as called
\* A search-stack entry: the subvolume, its path from the top, the items the
\* last search buffered and are not yet consumed, the offset of the last
\* item consumed (the next search starts after it).
SearchEntry(id, path) == [id |-> id, path |-> path, items |-> << >>, last |-> 0]

JoinPath(dir, name) == IF dir = "" THEN name ELSE dir \o "/" \o name

\* btrfs_util_create_subvolume_iterator_fd on the open descriptor fd of a
\* location: top = 0 asks for the subvolume the location is the root of; a
\* location is <<subvolume id, is its root>>.
LibCreate(loc, fd, top, flags) ==
  IF top = 0 /\ ~loc[2]
    THEN [code |-> BTRFS_UTIL_ERROR_NOT_SUBVOLUME, iter |-> NilPtr]
    ELSE [code |-> BTRFS_UTIL_OK,
          iter |-> Ptr([flags |-> flags, fd |-> fd,
                        stack |-> << SearchEntry(IF top = 0 THEN loc[1] ELSE top, "") >>])]

\* btrfs_util_subvolume_iterator_next on the struct c; the failAt-th tree
\* search of this call fails (0: none does).
RECURSIVE LibNext(_, _)
LibNext(c, failAt) ==
  IF c.stack = << >>
    THEN [code |-> BTRFS_UTIL_ERROR_STOP_ITERATION, path |-> NilPtr, id |-> 0, iter |-> c]
    ELSE
      LET n == Len(c.stack)
          top == c.stack[n]
      IN IF top.items # << >>
           THEN LET child == Head(top.items)
                    entry == SearchEntry(child, JoinPath(top.path, Name(child)))
                    pushed == [c EXCEPT !.stack =
                                 Append([c.stack EXCEPT ![n] =
                                           [top EXCEPT !.items = Tail(top.items),
                                                       !.last = child]], entry)]
                IN IF "POST_ORDER" \in c.flags
                     THEN LibNext(pushed, failAt)
                     ELSE [code |-> BTRFS_UTIL_OK, path |-> Ptr(entry.path),
                           id |-> child, iter |-> pushed]
           ELSE IF failAt = 1
             THEN [code |-> BTRFS_UTIL_ERROR_SEARCH_FAILED, path |-> NilPtr,
                   id |-> 0, iter |-> c]
             ELSE LET found == RootRefs(top.id, top.last)
                      rest == IF failAt > 0 THEN failAt - 1 ELSE 0
                      popped == [c EXCEPT !.stack = SubSeq(c.stack, 1, n - 1)]
                  IN IF found # << >>
                       THEN LibNext([c EXCEPT !.stack[n].items = found], rest)
                       ELSE IF "POST_ORDER" \in c.flags /\ n > 1
                         THEN [code |-> BTRFS_UTIL_OK, path |-> Ptr(top.path),
                               id |-> top.id, iter |-> popped]
                         ELSE LibNext(popped, rest)

\* btrfs_util_subvolume_info_fd for a subvolume beneath the top level: a
\* subvolume without a ROOT_BACKREF (deleted) is not found.
LibSubvolumeInfo(id) ==
  IF id \in live
    THEN [code |-> BTRFS_UTIL_OK, info |-> [id |-> id, parent_id |-> parentOf[id]]]
    ELSE [code |-> BTRFS_UTIL_ERROR_SUBVOLUME_NOT_FOUND, info |-> [id |-> 0, parent_id |-> 0]]

\* btrfs_util_subvolume_iterator_next_info: next, then the info of the id.
LibNextInfo(c, failAt) ==
  LET r == LibNext(c, failAt)
      i == LibSubvolumeInfo(r.id)
  IN IF r.code # BTRFS_UTIL_OK
       THEN [code |-> r.code, path |-> r.path, info |-> [id |-> 0, parent_id |-> 0],
             iter |-> r.iter]
       ELSE [code |-> i.code, path |-> r.path, info |-> i.info, iter |-> r.iter]

\* One step of the library from the cursor c, by the call an iterator of
\* this kind makes.
OneStep(kind, c, failAt) ==
  IF kind = "info" THEN LibNextInfo(c, failAt) ELSE LibNext(c, failAt)

\* C.GoString: the Go string of a C string, "" for NULL.
GoString(cpath) == IF cpath = NilPtr THEN "" ELSE cpath[1]

\* Mutant of newSubvolumeInfo: Id is taken from parent_id.
newSubvolumeInfoParent(info) == [Id |-> info.parent_id, ParentId |-> info.parent_id]

\* newSubvolumeInfo: the fields of the C struct, converted one by one.
newSubvolumeInfo(info) == [Id |-> info.id, ParentId |-> info.parent_id]

\* ------------------------------------------------------------ Go: create
\* A SubvolumeIterator / SubvolumeInfoIterator the caller has not made yet.
NoIterator == [kind |-> "none", iterator |-> NilPtr, lastResult |-> NilPtr, lastErr |-> Nil]

\* Mutants of IteratorFlags: the flag set whatever was asked, and never set.
IteratorFlagsAlways(post_order) == {"POST_ORDER"}
IteratorFlagsNever(post_order) == {}

\* flags := 0; if post_order { flags |= C.BTRFS_UTIL_SUBVOLUME_ITERATOR_POST_ORDER }
IteratorFlags(post_order) == IF post_order THEN {"POST_ORDER"} ELSE {}

\* Mutant of NewIterator: the constructor fetches the first element itself.
NewIteratorPrimed(kind, iter) ==
  IF iter = NilPtr
    THEN [it |-> [kind |-> kind, iterator |-> iter, lastResult |-> NilPtr, lastErr |-> Nil],
          calls |-> 0]
    ELSE LET r == LibNext(iter[1], 0)
         IN [it |-> [kind |-> kind, iterator |-> Ptr(r.iter),
                     lastResult |-> IF r.code = BTRFS_UTIL_OK
                                      THEN Ptr([Path |-> GoString(r.path), Id |-> r.id])
                                      ELSE NilPtr,
                     lastErr |-> getError(r.code)],
             calls |-> 1]

\* it := new(SubvolumeIterator), its iterator field set by the C call; the
\* method makes no other call: calls counts the iterator steps issued.
NewIterator(kind, iter) ==
  [it |-> [kind |-> kind, iterator |-> iter, lastResult |-> NilPtr, lastErr |-> Nil],
   calls |-> 0]

\* An open descriptor: its number and who opened it.
Descriptor(fd, by) == [fd |-> fd, by |-> by]

\* The number open(2) gives: the lowest one not in use.
FreeFd(open) ==
  CHOOSE n \in 1 .. (Cardinality(open) + 1) :
    /\ \A r \in open : r.fd # n
    /\ \A m \in 1 .. (n - 1) : \E r \in open : r.fd = m

\* close(2).
CloseFd(open, fd) == {r \in open : r.fd # fd}

\* btrfs_util_create_subvolume_iterator: the library opens the path itself,
\* and the C iterator closes that descriptor when destroyed; when the
\* creation fails the library closes it at once.  The Fd forms borrow the
\* caller's descriptor.
LibCreatePath(loc, top, flags) ==
  LET fd == FreeFd(fds)
      r == LibCreate(loc, fd, top, flags)
  IN IF r.code = BTRFS_UTIL_OK
       THEN [code |-> r.code,
             iter |-> Ptr([r.iter[1] EXCEPT !.flags = @ \cup {"CLOSE_FD"}]),
             open |-> fds \cup {Descriptor(fd, "iterator")}]
       ELSE [code |-> r.code, iter |-> r.iter, open |-> fds]

\* The caller of an Fd form opens the location first (os.Open) and hands
\* the descriptor over.
LibCreateFd(loc, top, flags) ==
  LET fd == FreeFd(fds)
      r == LibCreate(loc, fd, top, flags)
  IN [code |-> r.code, iter |-> r.iter, open |-> fds \cup {Descriptor(fd, "caller")}]

\* btrfs_util_destroy_subvolume_iterator: nothing for NULL; the descriptor
\* is closed when the iterator opened it.
LibDestroy(iter, open) ==
  IF iter = NilPtr THEN open
  ELSE IF "CLOSE_FD" \in iter[1].flags THEN CloseFd(open, iter[1].fd)
  ELSE open

\* What the caller has seen of an iterator.
\*   root    the subvolume the caller asked to list beneath (top, or for
\*           top = 0 the subvolume of the location), post: the order asked
\*   err     the error the constructor returned
\*   ret     what the last HasNext returned: "none", "true", "false"
\*   code    the status code of the step that HasNext issued
\*   lastGot what the last GetNext since then returned: <<result, error>>
\*   regot   GetNext was called again since, with no HasNext in between
\*   got     the first GetNext return after every HasNext that returned true
\*   strict  the calls so far are those of `for HasNext() { GetNext() }`
\*   nsteps  the steps issued against the C iterator
\*   asked   the HasNext calls that returned
\*   top, isRoot  the top asked for, and whether the location named was the
\*           root directory of a subvolume
\*   fd, own the descriptor the iterator works on, own: the caller handed
\*           it in ("caller") or the constructor opened it ("iterator")
\*   destroyed  Destroy was called; cached: the cached result at that time
\*   after   the calls made after Destroy: which, whether the caller was
\*           told of an error, whether the library got a nil handle
\*   gotAfter  what the last GetNext after Destroy returned
\*   fdRet   what the last Fd call returned
\*   fault   the process was ended by a fault inside a call
NoGot == << >>
NoFd == 0
NoObs == [made |-> FALSE, root |-> 0, post |-> FALSE, err |-> Nil, ret |-> "none",
          code |-> BTRFS_UTIL_OK,
          lastGot |-> NoGot, regot |-> FALSE, got |-> << >>, strict |-> TRUE, nsteps |-> 0,
          asked |-> 0,
          top |-> 0, isRoot |-> FALSE, fd |-> NoFd, own |-> "none",
          destroyed |-> FALSE, cached |-> NilPtr, after |-> {}, gotAfter |-> NoGot,
          fdRet |-> NoFd, fault |-> FALSE]

\* No one-shot call made yet, no QgroupInherit created.
NoCall == [op |-> "none"]
NoQgroupInherit ==
  [made |-> FALSE, inherit |-> NilPtr, heap |-> << >>, added |-> << >>,
   got |-> NoGot, adds |-> 0, destroys |-> 0, onFreed |-> FALSE, fault |-> FALSE]

\* A filesystem just made: generation FirstGeneration on disk, no
\* transaction running.
NoTrans == [disk |-> FirstGeneration, running |-> 0, committing |-> FALSE]
\* No channel-based iterator made (package libbtrfsutil); the fields are
\* described with its functions.
NoPump ==
  [made |-> FALSE, err |-> Nil, iterator |-> NilPtr, fd |-> NoFd, root |-> 0, post |-> FALSE,
   destroyed |-> FALSE, kind |-> "none", pc |-> "none", Cpath |-> NilPtr, id |-> 0,
   elem |-> NilPtr, closed |-> 0, recv |-> << >>, log |-> << >>, last |-> BTRFS_UTIL_OK,
   steps |-> 0, asks |-> 0, afterDestroy |-> 0, consumer |-> "none", fault |-> FALSE]

\* No call has ended the process.
Running == \A s \in Slots : ~obs[s].fault

\* Locations a caller may name: the root directory of a subvolume, or the
\* plain directory foo of the top-level subvolume.
Locations == {<< v, TRUE >> : v \in {FS_TREE} \cup live} \cup {<< FS_TREE, FALSE >>}
Tops == {0, FS_TREE} \cup AllIds
\* The mount point of the filesystem: the root of the top-level subvolume.
Mount == << FS_TREE, TRUE >>

Created(s, kind, r, loc, top, post_order) ==
  LET n == NewIterator(kind, r.iter)
      mine == r.open \ fds
  IN /\ Running
     /\ it[s].kind = "none"
     /\ ~obs[s].made
     /\ it' = [it EXCEPT ![s] = n.it]
     /\ obs' = [obs EXCEPT ![s] = [NoObs EXCEPT !.made = TRUE,
                                     !.root = IF top = 0 THEN loc[1] ELSE top,
                                     !.post = post_order,
                                     !.err = getError(r.code),
                                     !.nsteps = n.calls,
                                     !.top = top,
                                     !.isRoot = loc[2],
                                     !.fd = IF mine = {} THEN NoFd
                                            ELSE (CHOOSE d \in mine : TRUE).fd,
                                     !.own = IF mine = {} THEN "none"
                                             ELSE (CHOOSE d \in mine : TRUE).by]]
     /\ fds' = r.open
     /\ UNCHANGED << parentOf, live, env >>
     /\ UNCHANGED opVars

\* Mutant of CreateSubvolumeIterator: top is not handed to the C call.
CreateSubvolumeIteratorNoTop(s, loc, top, post_order) ==
  Created(s, "id", LibCreatePath(loc, 0, IteratorFlags(post_order)), loc, top, post_order)

CreateSubvolumeIterator(s, loc, top, post_order) ==
  Created(s, "id", LibCreatePath(loc, top, IteratorFlags(post_order)), loc, top, post_order)

CreateSubvolumeIteratorFd(s, loc, top, post_order) ==
  Created(s, "id", LibCreateFd(loc, top, IteratorFlags(post_order)), loc, top, post_order)

\* Mutant of CreateSubvolumeInfoIterator: zero is handed to the C call as top.
CreateSubvolumeInfoIteratorTopZero(s, loc, top, post_order) ==
  Created(s, "info", LibCreatePath(loc, 0, IteratorFlags(post_order)), loc, top, post_order)

CreateSubvolumeInfoIterator(s, loc, top, post_order) ==
  Created(s, "info", LibCreatePath(loc, top, IteratorFlags(post_order)), loc, top, post_order)

CreateSubvolumeInfoIteratorFd(s, loc, top, post_order) ==
  Created(s, "info", LibCreateFd(loc, top, IteratorFlags(post_order)), loc, top, post_order)

\* ------------------------------------------------- Go: HasNext and GetNext
\* Mutant of HasNext_do: the step is issued twice, the first result dropped.
HasNext_doTwice(g, failAt) ==
  LET r == LibNext(LibNext(g.iterator[1], failAt).iter, 0)
      lastErr == getError(r.code)
  IN IF lastErr = ErrStopIteration
       THEN [it |-> [g EXCEPT !.iterator = Ptr(r.iter), !.lastErr = lastErr,
                                !.lastResult = NilPtr],
             ret |-> FALSE, code |-> r.code, calls |-> 2]
       ELSE [it |-> [g EXCEPT !.iterator = Ptr(r.iter), !.lastErr = lastErr,
                                !.lastResult = Ptr([Path |-> GoString(r.path), Id |-> r.id])],
             ret |-> TRUE, code |-> r.code, calls |-> 2]

\* Mutant of HasNext_do: any error ends the iteration.
HasNext_doErrEnds(g, failAt) ==
  LET r == LibNext(g.iterator[1], failAt)
      lastErr == getError(r.code)
  IN IF lastErr # Nil
       THEN [it |-> [g EXCEPT !.iterator = Ptr(r.iter), !.lastErr = lastErr,
                                !.lastResult = NilPtr],
             ret |-> FALSE, code |-> r.code, calls |-> 1]
       ELSE [it |-> [g EXCEPT !.iterator = Ptr(r.iter), !.lastErr = lastErr,
                                !.lastResult = Ptr([Path |-> GoString(r.path), Id |-> r.id])],
             ret |-> TRUE, code |-> r.code, calls |-> 1]

\* SubvolumeIterator.HasNext on the struct g: one step of the C iterator,
\* its error and result cached in the struct.
HasNext_do(g, failAt) ==
  LET r == LibNext(g.iterator[1], failAt)
      lastErr == getError(r.code)
  IN IF lastErr = ErrStopIteration
       THEN [it |-> [g EXCEPT !.iterator = Ptr(r.iter), !.lastErr = lastErr,
                                !.lastResult = NilPtr],
             ret |-> FALSE, code |-> r.code, calls |-> 1]
       ELSE [it |-> [g EXCEPT !.iterator = Ptr(r.iter), !.lastErr = lastErr,
                                !.lastResult = Ptr([Path |-> GoString(r.path), Id |-> r.id])],
             ret |-> TRUE, code |-> r.code, calls |-> 1]

\* SubvolumeInfoIterator.HasNext.
HasNextInfo_do(g, failAt) ==
  LET r == LibNextInfo(g.iterator[1], failAt)
      lastErr == getError(r.code)
  IN IF lastErr = ErrStopIteration
       THEN [it |-> [g EXCEPT !.iterator = Ptr(r.iter), !.lastErr = lastErr,
                                !.lastResult = NilPtr],
             ret |-> FALSE, code |-> r.code, calls |-> 1]
       ELSE [it |-> [g EXCEPT !.iterator = Ptr(r.iter), !.lastErr = lastErr,
                                !.lastResult = Ptr([Path |-> GoString(r.path),
                                                    Info |-> newSubvolumeInfo(r.info)])],
             ret |-> TRUE, code |-> r.code, calls |-> 1]

\* Mutant of GetNext_do: the cached error is not returned.
GetNext_doNoErr(g) ==
  [it |-> g, res |-> g.lastResult, err |-> Nil, calls |-> 0]

\* Mutant of GetNext_do: the accessor consumes the cached result.
GetNext_doTake(g) ==
  IF g.lastErr # Nil
    THEN [it |-> g, res |-> NilPtr, err |-> g.lastErr, calls |-> 0]
    ELSE [it |-> [g EXCEPT !.lastResult = NilPtr], res |-> g.lastResult,
          err |-> g.lastErr, calls |-> 0]

\* Mutant of GetNext_do: the cached result is returned beside the error.
GetNext_doBoth(g) ==
  [it |-> g, res |-> g.lastResult, err |-> g.lastErr, calls |-> 0]

\* SubvolumeIterator.GetNext and SubvolumeInfoIterator.GetNext (the same
\* body): the cached result and error, the struct as it was.
GetNext_do(g) ==
  IF g.lastErr # Nil
    THEN [it |-> g, res |-> NilPtr, err |-> g.lastErr, calls |-> 0]
    ELSE [it |-> g, res |-> g.lastResult, err |-> g.lastErr, calls |-> 0]

\* A result is pending: HasNext returned true and GetNext has not fetched it.
Pending(s) == obs[s].ret = "true" /\ obs[s].lastGot = NoGot

\* The searches one step makes at most: one per push and one per pop.
MaxSearches == 2 * MaxSubvols + 2

\* Mutant of Stepped: the cached result and error are kept in one place for
\* all iterators instead of in each struct.
SteppedShared(s, r, failAt) ==
  /\ Running
  /\ failAt > 0 => r.code = BTRFS_UTIL_ERROR_SEARCH_FAILED
  /\ it' = [t \in Slots |->
             IF t = s THEN r.it
             ELSE IF it[t].kind = "none" THEN it[t]
             ELSE [it[t] EXCEPT !.lastResult = r.it.lastResult, !.lastErr = r.it.lastErr]]
  /\ obs' = [obs EXCEPT ![s].ret = IF r.ret THEN "true" ELSE "false",
                        ![s].code = r.code,
                        ![s].lastGot = NoGot,
                        ![s].regot = FALSE,
                        ![s].strict = @ /\ ~Pending(s) /\ obs[s].ret # "false",
                        ![s].nsteps = @ + r.calls,
                        ![s].asked = @ + 1]
  /\ env' = IF failAt > 0
              THEN [env EXCEPT !.faultsLeft = @ - 1, !.changed = TRUE]
              ELSE env
  /\ UNCHANGED << parentOf, live, fds >>
  /\ UNCHANGED opVars

Stepped(s, r, failAt) ==
  /\ Running
  /\ failAt > 0 => r.code = BTRFS_UTIL_ERROR_SEARCH_FAILED
  /\ it' = [it EXCEPT ![s] = r.it]
  /\ obs' = [obs EXCEPT ![s].ret = IF r.ret THEN "true" ELSE "false",
                        ![s].code = r.code,
                        ![s].lastGot = NoGot,
                        ![s].regot = FALSE,
                        ![s].strict = @ /\ ~Pending(s) /\ obs[s].ret # "false",
                        ![s].nsteps = @ + r.calls,
                        ![s].asked = @ + 1]
  /\ env' = IF failAt > 0
              THEN [env EXCEPT !.faultsLeft = @ - 1, !.changed = TRUE]
              ELSE env
  /\ UNCHANGED << parentOf, live, fds >>
  /\ UNCHANGED opVars

\* A call that hands the library a nil iterator: after Destroy, or on the
\* struct a failed constructor returned.  No method checks it.iterator; the
\* library reads through the pointer (btrfs_util_subvolume_iterator_next and
\* _fd do, unlike _destroy), and reading address 0 ends the process with a
\* fault: the caller gets no return value and no error.
NilHandleCall(s, name) ==
  /\ Running
  /\ it[s].iterator = NilPtr
  /\ obs' = [obs EXCEPT ![s].fault = TRUE,
                        ![s].after = IF obs[s].destroyed
                                       THEN @ \cup {[call |-> name, reported |-> FALSE,
                                                     nilHandle |-> it[s].iterator = NilPtr]}
                                       ELSE @]
  /\ UNCHANGED << parentOf, live, env, it, fds >>
  /\ UNCHANGED opVars

HasNext(s) ==
  /\ it[s].kind = "id"
  /\ obs[s].nsteps < MaxCalls
  /\ IF it[s].iterator = NilPtr
       THEN NilHandleCall(s, "HasNext")
       ELSE \E failAt \in 0 .. (IF env.faultsLeft > 0 THEN MaxSearches ELSE 0) :
              Stepped(s, HasNext_do(it[s], failAt), failAt)

HasNextInfo(s) ==
  /\ it[s].kind = "info"
  /\ obs[s].nsteps < MaxCalls
  /\ IF it[s].iterator = NilPtr
       THEN NilHandleCall(s, "HasNext")
       ELSE \E failAt \in 0 .. (IF env.faultsLeft > 0 THEN MaxSearches ELSE 0) :
              Stepped(s, HasNextInfo_do(it[s], failAt), failAt)

Got(s, r) ==
  /\ Running
  /\ it' = [it EXCEPT ![s] = r.it]
  /\ obs' = [obs EXCEPT ![s].lastGot = << r.res, r.err >>,
                        ![s].gotAfter = IF obs[s].destroyed THEN << r.res, r.err >> ELSE @,
                        ![s].regot = (obs[s].lastGot # NoGot),
                        ![s].got = IF Pending(s) THEN Append(@, << r.res, r.err >>) ELSE @,
                        ![s].strict = @ /\ Pending(s),
                        ![s].nsteps = @ + r.calls]
  /\ UNCHANGED << parentOf, live, env, fds >>
  /\ UNCHANGED opVars

GetNext(s) ==
  /\ it[s].kind = "id"
  /\ obs[s].err = Nil
  /\ Got(s, GetNext_do(it[s]))

GetNextInfo(s) ==
  /\ it[s].kind = "info"
  /\ obs[s].err = Nil
  /\ Got(s, GetNext_do(it[s]))

\* ------------------------------------------------------ Go: Destroy and Fd
\* Mutant of Destroy_do: the C iterator is dropped without being destroyed.
Destroy_doDrop(g, open) ==
  [it |-> [g EXCEPT !.iterator = NilPtr], open |-> open,
   nilHandle |-> g.iterator = NilPtr, calls |-> 0]

\* SubvolumeIterator.Destroy and SubvolumeInfoIterator.Destroy (the same
\* body): the C iterator is destroyed, whatever it.iterator is, and the
\* field set to nil; lastResult and lastErr are left as they are.
Destroy_do(g, open) ==
  [it |-> [g EXCEPT !.iterator = NilPtr], open |-> LibDestroy(g.iterator, open),
   nilHandle |-> g.iterator = NilPtr, calls |-> 0]

Destroyed(s, r) ==
  /\ Running
  /\ it' = [it EXCEPT ![s] = r.it]
  /\ fds' = r.open
  /\ obs' = [obs EXCEPT ![s].destroyed = TRUE,
                        ![s].cached = IF obs[s].destroyed THEN @ ELSE it[s].lastResult,
                        ![s].after = IF obs[s].destroyed
                                       THEN @ \cup {[call |-> "Destroy", reported |-> FALSE,
                                                     nilHandle |-> r.nilHandle]}
                                       ELSE @,
                        ![s].nsteps = @ + r.calls]
  /\ UNCHANGED << parentOf, live, env >>
  /\ UNCHANGED opVars

Destroy(s) ==
  /\ it[s].kind = "id"
  /\ Destroyed(s, Destroy_do(it[s], fds))

DestroyInfo(s) ==
  /\ it[s].kind = "info"
  /\ Destroyed(s, Destroy_do(it[s], fds))

\* SubvolumeIterator.Fd and SubvolumeInfoIterator.Fd (the same body):
\* btrfs_util_subvolume_iterator_fd reads the fd field of the C iterator.
Fd_do(g) == [it |-> g, fd |-> g.iterator[1].fd, calls |-> 0]

GotFd(s) ==
  IF it[s].iterator = NilPtr
    THEN NilHandleCall(s, "Fd")
    ELSE LET r == Fd_do(it[s])
         IN /\ Running
            /\ obs[s].fdRet = NoFd
            /\ it' = [it EXCEPT ![s] = r.it]
            /\ obs' = [obs EXCEPT ![s].fdRet = r.fd, ![s].nsteps = @ + r.calls]
            /\ UNCHANGED << parentOf, live, env, fds >>
            /\ UNCHANGED opVars

Fd(s) ==
  /\ it[s].kind = "id"
  /\ GotFd(s)

FdInfo(s) ==
  /\ it[s].kind = "info"
  /\ GotFd(s)

\* ------------------------------------------------- the status-code table
\* The status codes a C call may hand back.
Codes == 0 .. MaxCode

\* A status code not yet translated.
Untranslated(n) == [op |-> "input", errInt |-> n, err |-> Nil, code |-> 0, back |-> Nil]

\* What the calls on the status-code table leave alone.
tableRest == << parentOf, live, env, it, obs, fds, dflt, deleted, qg, trans, pump >>

\* err := getError(errInt)
Call_getError ==
  /\ call.op = "input"
  /\ call' = [call EXCEPT !.op = "getError", !.err = getError(call.errInt)]
  /\ UNCHANGED tableRest

\* GetCError(err) of the error getError gave.
Call_GetCError ==
  /\ call.op = "getError"
  /\ call' = [call EXCEPT !.op = "GetCError", !.code = GetCError(call.err)]
  /\ UNCHANGED tableRest

\* getError of the code GetCError gave.
Call_getErrorBack ==
  /\ call.op = "GetCError"
  /\ call' = [call EXCEPT !.op = "getErrorBack", !.back = getError(call.code)]
  /\ UNCHANGED tableRest

\* Errors of other packages a caller may hold.
ForeignErrors == {"io.EOF", "os.ErrNotExist"}

\* GetCError(err) of an error that did not come from getError.
Call_GetCErrorOf(err) ==
  /\ call.op = "input"
  /\ call' = [call EXCEPT !.op = "GetCErrorOf", !.err = err, !.code = GetCError(err)]
  /\ UNCHANGED tableRest

\* ------------------------------------------------------ Go: QgroupInherit
\* qg is the caller's QgroupInherit and what lies behind it:
\*   inherit  the field of the caller's struct: the address of a heap block
\*   heap     the C heap, address -> the block allocated there: the list of
\*            group ids it holds (as last written) and whether it was freed
\*   added    the ids whose AddGroup returned nil, in call order
\*   got      what the last GetGroups since then returned (a pointer to it)
\*   adds     the AddGroup calls made
\*   destroys the Destroy calls made
\*   onFreed  a call was made whose handle named a block already freed
\*   fault    the process was ended by a fault inside a call
\* The quota-group ids a caller adds.
QgroupIds == {1, 2, 77}

Block(groups) == [groups |-> groups, freed |-> FALSE]

\* btrfs_util_create_qgroup_inherit: one zeroed block, no groups.
LibCreateQgroupInherit == [code |-> BTRFS_UTIL_OK, heap |-> << Block(<< >>) >>, ptr |-> Ptr(1)]

\* btrfs_util_qgroup_inherit_add_group(&ptr, id): the block is realloc'ed
\* one id larger, the id stored at its end and the block's address written
\* back through the pointer argument.  how is what realloc does: grows the
\* block where it is ("inplace"), allocates a new one, copies and frees the
\* old one ("moved"), or fails ("nomem").  On a block already freed the
\* call is undefined: the allocator ends the process ("fault") or takes the
\* block's old content for valid.
ReallocOutcomes(blk) ==
  IF blk.freed THEN {"moved", "fault"} ELSE {"inplace", "moved", "nomem"}

LibAddGroup(heap, ptr, id, how) ==
  LET a == ptr[1]
      grown == Block(Append(heap[a].groups, id))
  IN CASE how = "inplace" ->
            [code |-> BTRFS_UTIL_OK, heap |-> [heap EXCEPT ![a] = grown],
             ptr |-> ptr, fault |-> FALSE]
       [] how = "moved" ->
            [code |-> BTRFS_UTIL_OK,
             heap |-> Append([heap EXCEPT ![a].freed = TRUE], grown),
             ptr |-> Ptr(Len(heap) + 1), fault |-> FALSE]
       [] how = "nomem" ->
            [code |-> BTRFS_UTIL_ERROR_NO_MEMORY, heap |-> heap, ptr |-> ptr,
             fault |-> FALSE]
       [] OTHER ->
            [code |-> BTRFS_UTIL_OK, heap |-> heap, ptr |-> ptr, fault |-> TRUE]

\* btrfs_util_qgroup_inherit_get_groups: the address of the id array inside
\* the block and its count.  Reading a freed block is undefined: it gives
\* the content the block was left with, or a count that is no count, and
\* the slice expression ends the process.
ReadOutcomes(blk) == IF blk.freed THEN {"stale", "fault"} ELSE {"read"}

LibGetGroups(heap, ptr, how) ==
  [groups |-> heap[ptr[1]].groups, n |-> Len(heap[ptr[1]].groups), fault |-> how = "fault"]

\* func (q QgroupInherit) AddGroup: the receiver is a copy of the caller's
\* struct; the library writes the block's new address into the copy's
\* field, and the copy is dropped on return.  The caller's struct is as it
\* was.
AddGroup_do(q, heap, groupid, how) ==
  LET copy == q
      r == LibAddGroup(heap, copy.inherit, groupid, how)
      written == [copy EXCEPT !.inherit = r.ptr]
  IN [q |-> q, heap |-> r.heap, err |-> getError(r.code), fault |-> r.fault]

\* func (q QgroupInherit) GetGroups: a slice of n ids over the C array.
GetGroups_do(q, heap, how) ==
  LET r == LibGetGroups(heap, q.inherit, how)
  IN [groups |-> SubSeq(r.groups, 1, r.n), fault |-> r.fault]

\* What the QgroupInherit calls leave alone.
qgRest == << parentOf, live, env, it, obs, fds, dflt, deleted, call, trans, pump >>

CreateQgroupInherit ==
  LET r == LibCreateQgroupInherit
  IN /\ ~qg.made
     /\ qg' = [NoQgroupInherit EXCEPT !.made = TRUE, !.inherit = r.ptr, !.heap = r.heap]
     /\ UNCHANGED qgRest

AddGroup(groupid) ==
  /\ qg.made
  /\ ~qg.fault
  /\ qg.adds < MaxGroups
  /\ \E how \in ReallocOutcomes(qg.heap[qg.inherit[1]]) :
       LET r == AddGroup_do([inherit |-> qg.inherit], qg.heap, groupid, how)
       IN qg' = [qg EXCEPT !.inherit = r.q.inherit,
                           !.heap = r.heap,
                           !.added = IF r.err = Nil /\ ~r.fault THEN Append(@, groupid) ELSE @,
                           !.got = NoGot,
                           !.adds = @ + 1,
                           !.onFreed = @ \/ qg.heap[qg.inherit[1]].freed,
                           !.fault = r.fault]
  /\ UNCHANGED qgRest

GetGroups ==
  /\ qg.made
  /\ ~qg.fault
  /\ \E how \in ReadOutcomes(qg.heap[qg.inherit[1]]) :
       LET r == GetGroups_do([inherit |-> qg.inherit], qg.heap, how)
       IN qg' = [qg EXCEPT !.got = IF r.fault THEN NoGot ELSE Ptr(r.groups),
                           !.onFreed = @ \/ qg.heap[qg.inherit[1]].freed,
                           !.fault = r.fault]
  /\ UNCHANGED qgRest

\* btrfs_util_destroy_qgroup_inherit: free(inherit).  Freeing a block
\* already freed is undefined: the allocator ends the process ("fault") or
\* does not notice ("unnoticed").
FreeOutcomes(blk) == IF blk.freed THEN {"unnoticed", "fault"} ELSE {"freed"}

LibDestroyQgroupInherit(heap, ptr, how) ==
  [heap |-> [heap EXCEPT ![ptr[1]].freed = TRUE], fault |-> how = "fault"]

\* func (q QgroupInherit) Destroy: the receiver is a copy of the caller's
\* struct; nil is stored into the copy's field and the copy is dropped on
\* return.  The caller's struct is as it was.
QgroupInherit_Destroy_do(q, heap, how) ==
  LET copy == q
      r == LibDestroyQgroupInherit(heap, copy.inherit, how)
      written == [copy EXCEPT !.inherit = NilPtr]
  IN [q |-> q, heap |-> r.heap, fault |-> r.fault]

QgroupInherit_Destroy ==
  /\ qg.made
  /\ ~qg.fault
  /\ qg.destroys < MaxDestroys
  /\ \E how \in FreeOutcomes(qg.heap[qg.inherit[1]]) :
       LET r == QgroupInherit_Destroy_do([inherit |-> qg.inherit], qg.heap, how)
       IN qg' = [qg EXCEPT !.inherit = r.q.inherit,
                           !.heap = r.heap,
                           !.got = NoGot,
                           !.destroys = @ + 1,
                           !.onFreed = @ \/ qg.heap[qg.inherit[1]].freed,
                           !.fault = r.fault]
  /\ UNCHANGED qgRest

\* ------------------------------------------------- Go: one-shot operations
\* A path that names nothing.
Missing == << 0, FALSE >>
\* The paths a caller may name.
Paths == Locations \cup {Missing}

Range(q) == {q[i] : i \in DOMAIN q}

\* The record of a one-shot call: the arguments, then what it returned
\* (ok: a bool, id: an id, ids: a list of ids, err) and what the caller
\* can tell of its effect (gone: the subvolumes it deleted, in order;
\* before, pending, was: the subvolumes that existed, those deleted and not
\* cleaned up, and the default subvolume, when the call was made).
Called(op, loc, arg) ==
  [op |-> op, loc |-> loc, arg |-> arg, ok |-> FALSE, id |-> 0, ids |-> << >>,
   err |-> Nil, gone |-> << >>, before |-> live, pending |-> deleted, was |-> dflt,
   lastSet |-> << >>]

\* What the calls that only ask leave alone.
askRest == << parentOf, live, env, it, obs, fds, dflt, deleted, qg, trans, pump >>

\* btrfs_util_is_subvolume: the path is opened, then tested.
LibIsSubvolumeFd(loc) ==
  IF loc[2] THEN BTRFS_UTIL_OK ELSE BTRFS_UTIL_ERROR_NOT_SUBVOLUME

LibIsSubvolume(loc) ==
  IF loc = Missing THEN BTRFS_UTIL_ERROR_OPEN_FAILED ELSE LibIsSubvolumeFd(loc)

\* Mutant of IsSubvolume_do: the error is swallowed.
IsSubvolume_doSwallow(code) ==
  LET err == getError(code)
  IN IF err = Nil THEN [ok |-> TRUE, err |-> err] ELSE [ok |-> FALSE, err |-> Nil]

\* IsSubvolume and IsSubvolumeFd (the same body after the C call).
IsSubvolume_do(code) ==
  LET err == getError(code)
  IN IF err = Nil THEN [ok |-> TRUE, err |-> err] ELSE [ok |-> FALSE, err |-> err]

IsSubvolume(loc) ==
  LET r == IsSubvolume_do(LibIsSubvolume(loc))
  IN /\ call' = [Called("IsSubvolume", loc, FALSE) EXCEPT !.ok = r.ok, !.err = r.err]
     /\ UNCHANGED askRest

IsSubvolumeFd(loc) ==
  LET r == IsSubvolume_do(LibIsSubvolumeFd(loc))
  IN /\ call' = [Called("IsSubvolumeFd", loc, FALSE) EXCEPT !.ok = r.ok, !.err = r.err]
     /\ UNCHANGED askRest

\* Mutant of DeleteFlags: the flag set whatever was asked.
DeleteFlagsAlways(recursive) == {"RECURSIVE"}

\* flags := 0; if recursive { flags |= C.BTRFS_UTIL_DELETE_SUBVOLUME_RECURSIVE }
DeleteFlags(recursive) == IF recursive THEN {"RECURSIVE"} ELSE {}

\* The ids a C iterator returns until it stops.
RECURSIVE Drain(_)
Drain(c) ==
  LET r == LibNext(c, 0)
  IN IF r.code # BTRFS_UTIL_OK THEN << >> ELSE << r.id >> \o Drain(r.iter)

\* btrfs_util_delete_subvolume: the path must be the root directory of a
\* subvolume; with the RECURSIVE flag the subvolumes beneath it are deleted
\* first, one by one as a post-order iterator returns them (each holds
\* none any more when its turn comes); then the subvolume itself is, which
\* the filesystem refuses while it holds a subvolume, and for the top level.
LibDeleteSubvolume(loc, flags) ==
  IF loc = Missing THEN [code |-> BTRFS_UTIL_ERROR_OPEN_FAILED, gone |-> << >>]
  ELSE IF ~loc[2] THEN [code |-> BTRFS_UTIL_ERROR_NOT_SUBVOLUME, gone |-> << >>]
  ELSE LET beneath == IF "RECURSIVE" \in flags
                        THEN Drain(LibCreate(loc, NoFd, 0, {"POST_ORDER"}).iter[1])
                        ELSE << >>
           left == Range(RootRefs(loc[1], 0)) \ Range(beneath)
       IN IF loc[1] = FS_TREE \/ left # {}
            THEN [code |-> BTRFS_UTIL_ERROR_SNAP_DESTROY_FAILED, gone |-> beneath]
            ELSE [code |-> BTRFS_UTIL_OK, gone |-> Append(beneath, loc[1])]

\* DeleteSubvolume: the effect on the filesystem and what the caller gets.
Deleted(loc, recursive) ==
  LET r == LibDeleteSubvolume(loc, DeleteFlags(recursive))
  IN /\ live' = live \ Range(r.gone)
     /\ deleted' = deleted \o r.gone
     /\ call' = [Called("DeleteSubvolume", loc, recursive) EXCEPT
                   !.err = getError(r.code), !.gone = r.gone]

DeleteSubvolume(loc, recursive) ==
  /\ Deleted(loc, recursive)
  /\ UNCHANGED << parentOf, env, it, obs, fds, dflt, qg, trans, pump >>

\* btrfs_util_deleted_subvolumes: the ids of the orphan items of the root
\* tree, in key order; no array when there is none.
LibDeletedSubvolumes(loc) ==
  IF loc = Missing
    THEN [code |-> BTRFS_UTIL_ERROR_OPEN_FAILED, ids |-> NilPtr, n |-> 0]
    ELSE [code |-> BTRFS_UTIL_OK,
          ids |-> IF deleted = << >> THEN NilPtr ELSE Ptr(SortedSeq(Range(deleted))),
          n |-> Len(deleted)]

\* Mutant of DeletedSubvolumes_do: the slice is never made.
DeletedSubvolumes_doNone(r) == [ids |-> << >>, err |-> getError(r.code)]

\* DeletedSubvolumes: a slice of n ids over the C array when n is not 0, a
\* nil slice otherwise.
DeletedSubvolumes_do(r) ==
  [ids |-> IF r.n # 0 THEN SubSeq(r.ids[1], 1, r.n) ELSE << >>, err |-> getError(r.code)]

DeletedSubvolumes(loc) ==
  LET r == DeletedSubvolumes_do(LibDeletedSubvolumes(loc))
  IN /\ call' = [Called("DeletedSubvolumes", loc, FALSE) EXCEPT !.ids = r.ids, !.err = r.err]
     /\ UNCHANGED askRest

\* btrfs_util_get_default_subvolume.
LibGetDefaultSubvolume(loc) ==
  IF loc = Missing THEN [code |-> BTRFS_UTIL_ERROR_OPEN_FAILED, id |-> 0]
  ELSE [code |-> BTRFS_UTIL_OK, id |-> dflt]

\* btrfs_util_set_default_subvolume: id = 0 asks for the subvolume the path
\* is the root of; the filesystem refuses an id that names no subvolume.
LibSetDefaultSubvolume(loc, id) ==
  IF loc = Missing THEN [code |-> BTRFS_UTIL_ERROR_OPEN_FAILED, dflt |-> dflt]
  ELSE IF id = 0 /\ ~loc[2] THEN [code |-> BTRFS_UTIL_ERROR_NOT_SUBVOLUME, dflt |-> dflt]
  ELSE LET want == IF id = 0 THEN loc[1] ELSE id
       IN IF want \in {FS_TREE} \cup live
            THEN [code |-> BTRFS_UTIL_OK, dflt |-> want]
            ELSE [code |-> BTRFS_UTIL_ERROR_DEFAULT_SUBVOL_FAILED, dflt |-> dflt]

GetDefaultSubvolume(loc) ==
  LET r == LibGetDefaultSubvolume(loc)
  IN /\ call' = [Called("GetDefaultSubvolume", loc, 0) EXCEPT
                   !.id = r.id, !.err = getError(r.code),
                   !.lastSet = IF call.op = "SetDefaultSubvolume" THEN << call >>
                               ELSE IF call.op = "GetDefaultSubvolume" THEN call.lastSet
                               ELSE << >>]
     /\ UNCHANGED askRest

\* Mutant of SetDefaultSubvolume: zero is handed to the C call as id.
SetDefaultSubvolumeZero(loc, id) ==
  LET r == LibSetDefaultSubvolume(loc, 0)
  IN /\ dflt' = r.dflt
     /\ call' = [Called("SetDefaultSubvolume", loc, id) EXCEPT !.err = getError(r.code)]
     /\ UNCHANGED << parentOf, live, env, it, obs, fds, deleted, qg, trans, pump >>

SetDefaultSubvolume(loc, id) ==
  LET r == LibSetDefaultSubvolume(loc, id)
  IN /\ dflt' = r.dflt
     /\ call' = [Called("SetDefaultSubvolume", loc, id) EXCEPT !.err = getError(r.code)]
     /\ UNCHANGED << parentOf, live, env, it, obs, fds, deleted, qg, trans, pump >>

\* ---------------------------------------------------------------- Go: sync
\* trans is the filesystem's transactions:
\*   disk        the generation in the superblock: the id of the last
\*               transaction committed
\*   running     the id of the transaction holding the modifications not yet
\*               on disk, 0 when there is none
\*   committing  a commit of the running transaction has been started
\* The calls record in call: the generation on disk before the call
\* (before) and when it returned (after), whether a modification was waiting
\* for its commit when it was made (dirty), the last StartSync that returned
\* nil (started), and for WaitSync whether it has returned (state) and the
\* transaction it waits for (target).
SyncCalled(op, loc, arg) ==
  [op |-> op, loc |-> loc, arg |-> arg, transid |-> 0, err |-> Nil,
   before |-> trans.disk, after |-> trans.disk, dirty |-> trans.running # 0,
   state |-> "returned", target |-> 0,
   started |-> IF call.op \in {"Sync", "StartSync", "WaitSync"}
                 THEN call.started ELSE NilPtr]

\* The caller is inside a WaitSync that has not returned.
Blocked == call.op = "WaitSync" /\ call.state = "blocked"

syncRest == << parentOf, live, env, it, obs, fds, dflt, deleted, qg, pump >>

\* btrfs_util_sync: BTRFS_IOC_SYNC on the opened path commits the running
\* transaction, if there is one, and returns when it is on disk.
LibSync(loc) ==
  IF loc = Missing
    THEN [code |-> BTRFS_UTIL_ERROR_OPEN_FAILED, trans |-> trans]
    ELSE [code |-> BTRFS_UTIL_OK,
          trans |-> IF trans.running # 0
                      THEN [disk |-> trans.running, running |-> 0, committing |-> FALSE]
                      ELSE trans]

\* btrfs_util_start_sync: BTRFS_IOC_START_SYNC starts the commit of the
\* running transaction and gives its id without waiting; with no running
\* transaction it gives the id of the last one committed.
LibStartSync(loc) ==
  IF loc = Missing
    THEN [code |-> BTRFS_UTIL_ERROR_OPEN_FAILED, transid |-> 0, trans |-> trans]
    ELSE IF trans.running # 0
      THEN [code |-> BTRFS_UTIL_OK, transid |-> trans.running,
            trans |-> [trans EXCEPT !.committing = TRUE]]
      ELSE [code |-> BTRFS_UTIL_OK, transid |-> trans.disk, trans |-> trans]

\* btrfs_util_wait_sync: BTRFS_IOC_WAIT_SYNC.  A transaction already on disk
\* is not waited for; the running one is waited for (wait: its id); an id
\* that names no transaction is refused.  Zero names the transaction being
\* committed, and nothing is waited for when none is.
LibWaitSync(loc, transid) ==
  IF loc = Missing
    THEN [code |-> BTRFS_UTIL_ERROR_OPEN_FAILED, wait |-> 0]
    ELSE IF transid = 0
      THEN [code |-> BTRFS_UTIL_OK, wait |-> IF trans.committing THEN trans.running ELSE 0]
      ELSE IF transid <= trans.disk
        THEN [code |-> BTRFS_UTIL_OK, wait |-> 0]
        ELSE IF transid = trans.running
          THEN [code |-> BTRFS_UTIL_OK, wait |-> transid]
          ELSE [code |-> BTRFS_UTIL_ERROR_WAIT_SYNC_FAILED, wait |-> 0]

\* func Sync: the translated status code.
Sync(loc) ==
  LET r == LibSync(loc)
  IN /\ ~Blocked
     /\ trans' = r.trans
     /\ call' = [SyncCalled("Sync", loc, 0) EXCEPT !.err = getError(r.code),
                                                   !.after = r.trans.disk]
     /\ UNCHANGED syncRest

\* Mutant of StartSync_do: the transaction id is not handed back.
StartSync_doZero(r) == [transid |-> 0, err |-> getError(r.code)]

\* func StartSync: the transaction id the library stored and the translated
\* status code.
StartSync_do(r) == [transid |-> r.transid, err |-> getError(r.code)]

StartSync(loc) ==
  LET r == LibStartSync(loc)
      g == StartSync_do(r)
      c == SyncCalled("StartSync", loc, 0)
  IN /\ ~Blocked
     /\ trans' = r.trans
     /\ call' = [c EXCEPT !.err = g.err, !.transid = g.transid,
                          !.started = IF g.err = Nil
                                        THEN Ptr([transid |-> g.transid, before |-> c.before,
                                                  dirty |-> c.dirty])
                                        ELSE @]
     /\ UNCHANGED syncRest

\* func WaitSync is called: the library call returns at once, or the caller
\* waits inside it; the status code is translated.
WaitSync(loc, transid) ==
  LET r == LibWaitSync(loc, transid)
  IN /\ ~Blocked
     /\ call' = [SyncCalled("WaitSync", loc, transid) EXCEPT
                   !.err = getError(r.code),
                   !.target = r.wait,
                   !.state = IF r.wait # 0 THEN "blocked" ELSE "returned"]
     /\ UNCHANGED trans
     /\ UNCHANGED syncRest

\* The transaction waited for is on disk: WaitSync returns.
WaitSyncReturn ==
  /\ Blocked
  /\ trans.disk >= call.target
  /\ call' = [call EXCEPT !.state = "returned", !.after = trans.disk]
  /\ UNCHANGED trans
  /\ UNCHANGED syncRest

\* -------------------------------------- Go: the channel-based iterator
\* Package libbtrfsutil's SubvolumeIterator, whose Next / NextInfo start a
\* goroutine that steps the C iterator and sends every result on an
\* unbuffered channel.  pump holds the iterator, the goroutine, the channel
\* and the consumer:
\*   iterator, fd  the fields of the Go struct (the C iterator is kept as
\*           the pointer's target even once destroyed: the pointer dangles)
\*   err     what the constructor returned; root, post: what was asked
\*   destroyed  Destroy was called
\*   kind    "id" once Next was called, "info" once NextInfo was
\*   pc      where the goroutine is: "step" before the C call, "send" at
\*           ch <- element, "free" before C.free(Cpath), "close" before
\*           close(ch), "done" after it, "crashed"
\*   Cpath, id  the variables the goroutine's closure captured: Cpath is nil
\*           or points to a C string, which is freed or not
\*   elem    the element being sent; recv: the elements received, in order
\*   closed  the close(ch) calls made
\*   log     the steps issued that did not return the stop code, last: the
\*           code of the last step
\*   steps   the steps issued, afterDestroy: those issued after Destroy
\*   asks    the receives the consumer has begun
\*   consumer  "idle" between receives, "waiting" inside one, "stopped"
\*           when it gave up before the channel was closed, "done" when a
\*           receive reported the channel closed
\*   fault   the process was ended by a fault
pumpRest == << parentOf, live, it, obs, dflt, deleted, call, qg, trans >>

\* The channel-based CreateSubvolumeIterator: the C iterator is created,
\* then its descriptor asked for whatever the creation returned; with no
\* iterator created that call reads through a nil pointer.
ChanCreateSubvolumeIterator(loc, top, post_order) ==
  LET r == LibCreatePath(loc, top, IteratorFlags(post_order))
  IN /\ ~pump.made
     /\ pump' = [NoPump EXCEPT !.made = TRUE,
                               !.err = getError(r.code),
                               !.iterator = r.iter,
                               !.fd = IF r.iter = NilPtr THEN NoFd ELSE r.iter[1].fd,
                               !.root = IF top = 0 THEN loc[1] ELSE top,
                               !.post = post_order,
                               !.fault = (r.iter = NilPtr)]
     /\ fds' = r.open
     /\ UNCHANGED env
     /\ UNCHANGED pumpRest

\* The iterator can be used: it was made and no call has ended the process.
PumpUsable == pump.made /\ ~pump.fault

\* Next / NextInfo: the channel is made, the goroutine started and the
\* channel returned; the deferred C.free gets the nil Cpath of that moment.
Started(kind) ==
  /\ PumpUsable
  /\ pump.kind = "none"
  /\ pump' = [pump EXCEPT !.kind = kind, !.pc = "step", !.consumer = "idle"]
  /\ UNCHANGED << env, fds >>
  /\ UNCHANGED pumpRest

SubvolumeIterator_Next == Started("id")

SubvolumeIterator_NextInfo == Started("info")

\* A C call on the iterator after Destroy works on freed memory: it ends
\* the process, or finds the memory as it was left.
StepOutcomes == IF pump.destroyed THEN {"stale", "fault"} ELSE {"step"}

\* C.GoString(Cpath) and C.free(Cpath) on a string already freed: the same.
ReuseOutcomes(cpath) ==
  IF cpath # NilPtr /\ cpath[1].freed THEN {"stale", "fault"} ELSE {"valid"}

\* The goroutine faults: the process ends.
Crashed(p) == [p EXCEPT !.pc = "crashed", !.fault = TRUE]

\* The goroutine's loop, up to the send: one step of the C iterator; on the
\* stop code the loop is left; otherwise the element is built from the
\* code, Cpath and id (or info).  The library stores a path only when the
\* step found a subvolume; otherwise Cpath is what the last round left.
PumpStep ==
  /\ PumpUsable
  /\ pump.pc = "step"
  /\ pump.steps < MaxCalls
  /\ \E failAt \in 0 .. (IF env.faultsLeft > 0 THEN MaxSearches ELSE 0),
        how \in StepOutcomes :
       LET counted == [pump EXCEPT !.steps = @ + 1,
                                   !.afterDestroy = IF pump.destroyed THEN @ + 1 ELSE @]
           r == OneStep(pump.kind, pump.iterator[1], failAt)
           cpath == IF r.path # NilPtr THEN Ptr([str |-> r.path[1], freed |-> FALSE])
                    ELSE pump.Cpath
           id == IF pump.kind = "id" /\ r.code = BTRFS_UTIL_OK THEN r.id ELSE pump.id
           stepped == [counted EXCEPT !.iterator = Ptr(r.iter), !.Cpath = cpath, !.id = id,
                                      !.last = r.code]
           path == IF cpath = NilPtr THEN GoString(NilPtr) ELSE GoString(Ptr(cpath[1].str))
           elem == IF pump.kind = "info"
                     THEN [err |-> getError(r.code), path |-> path,
                           info |-> newSubvolumeInfo(r.info)]
                     ELSE [err |-> getError(r.code), path |-> path, id |-> id]
       IN /\ failAt > 0 => (how # "fault" /\ r.code = BTRFS_UTIL_ERROR_SEARCH_FAILED)
          /\ env' = IF failAt > 0
                      THEN [env EXCEPT !.faultsLeft = @ - 1, !.changed = TRUE]
                      ELSE env
          /\ IF how = "fault"
               THEN pump' = Crashed(counted)
               ELSE IF r.code = BTRFS_UTIL_ERROR_STOP_ITERATION
                 THEN pump' = [stepped EXCEPT !.pc = "close"]
                 ELSE \E read \in ReuseOutcomes(cpath) :
                        LET logged == [stepped EXCEPT
                                         !.log = Append(@, [code |-> r.code, elem |-> elem])]
                        IN pump' = IF read = "fault"
                                     THEN Crashed(logged)
                                     ELSE [logged EXCEPT !.elem = Ptr(elem), !.pc = "send"]
  /\ UNCHANGED fds
  /\ UNCHANGED pumpRest

\* ch <- element meets a receive of the consumer: the channel has no
\* buffer, so the send waits until the consumer is inside a receive.
Receive ==
  /\ PumpUsable
  /\ pump.pc = "send"
  /\ pump.consumer = "waiting"
  /\ pump' = [pump EXCEPT !.recv = Append(@, pump.elem[1]), !.elem = NilPtr,
                          !.pc = "free", !.consumer = "idle"]
  /\ UNCHANGED << env, fds >>
  /\ UNCHANGED pumpRest

\* C.free(unsafe.Pointer(Cpath)) after the send; Cpath keeps the address.
PumpFree ==
  /\ PumpUsable
  /\ pump.pc = "free"
  /\ \E how \in ReuseOutcomes(pump.Cpath) :
       pump' = IF how = "fault" THEN Crashed(pump)
               ELSE [pump EXCEPT !.pc = "step",
                                 !.Cpath = IF @ = NilPtr THEN @
                                           ELSE Ptr([@[1] EXCEPT !.freed = TRUE])]
  /\ UNCHANGED << env, fds >>
  /\ UNCHANGED pumpRest

\* close(ch), after the loop.
PumpClose ==
  /\ PumpUsable
  /\ pump.pc = "close"
  /\ pump' = [pump EXCEPT !.closed = @ + 1, !.pc = "done"]
  /\ UNCHANGED << env, fds >>
  /\ UNCHANGED pumpRest

\* What the goroutine can do.
PumpNext ==
  \/ PumpStep
  \/ Receive
  \/ PumpFree
  \/ PumpClose

\* The consumer begins a receive (<-ch, or the next round of a range loop).
ConsumerAsk ==
  /\ PumpUsable
  /\ pump.consumer = "idle"
  /\ pump' = [pump EXCEPT !.consumer = "waiting", !.asks = @ + 1]
  /\ UNCHANGED << env, fds >>
  /\ UNCHANGED pumpRest

\* A receive finds the channel closed: the consumer's loop ends.
ConsumerSeesClose ==
  /\ PumpUsable
  /\ pump.consumer = "waiting"
  /\ pump.closed > 0
  /\ pump' = [pump EXCEPT !.consumer = "done"]
  /\ UNCHANGED << env, fds >>
  /\ UNCHANGED pumpRest

\* The consumer leaves its loop before the channel is closed.
ConsumerStops ==
  /\ PumpUsable
  /\ pump.consumer = "idle"
  /\ pump.closed = 0
  /\ pump' = [pump EXCEPT !.consumer = "stopped"]
  /\ UNCHANGED << env, fds >>
  /\ UNCHANGED pumpRest

\* func (it SubvolumeIterator) Destroy: the C iterator is destroyed (and the
\* descriptor it opened closed); nothing tells the goroutine.
SubvolumeIterator_Destroy ==
  /\ PumpUsable
  /\ ~pump.destroyed
  /\ pump' = [pump EXCEPT !.destroyed = TRUE]
  /\ fds' = LibDestroy(pump.iterator, fds)
  /\ UNCHANGED env
  /\ UNCHANGED pumpRest

\* ------------------------------------------------------------ environment
\* DeleteSubvolume(path, false) by another caller while an iterator is in
\* use: a subvolume that holds no subvolume is removed.
DeleteMeanwhile(c) ==
  /\ c \in live
  /\ \A d \in live : parentOf[d] # c
  /\ env.faultsLeft > 0
  /\ \E s \in Slots : it[s].iterator # NilPtr
  /\ Deleted(<< c, TRUE >>, FALSE)
  /\ env' = [env EXCEPT !.faultsLeft = @ - 1, !.changed = TRUE]
  /\ UNCHANGED << parentOf, it, obs, fds, dflt, qg, trans, pump >>

\* The filesystem's cleaner has removed a deleted subvolume for good.
Clean(c) ==
  /\ c \in Range(deleted)
  /\ deleted' = SelectSeq(deleted, LAMBDA d : d # c)
  /\ UNCHANGED << parentOf, live, env, it, obs, fds, dflt, call, qg, trans, pump >>

\* A file is touched (the test's touch): the modification starts a
\* transaction, the next after the one on disk.
Touch ==
  /\ trans.running = 0
  /\ trans.disk < MaxGeneration
  /\ trans' = [trans EXCEPT !.running = trans.disk + 1]
  /\ UNCHANGED call
  /\ UNCHANGED syncRest

\* The kernel commits the running transaction: the commit StartSync started,
\* or the periodic one.
KernelCommit ==
  /\ trans.running # 0
  /\ trans' = [disk |-> trans.running, running |-> 0, committing |-> FALSE]
  /\ UNCHANGED call
  /\ UNCHANGED syncRest

\* ---------------------------------------------------------- specifications
\* A filesystem of n subvolumes created in id order, each inside the top
\* level or inside an earlier one.
TreeInit(max) ==
  \E n \in 0 .. max :
    /\ live = {c \in AllIds : c < FirstSubvolId + n}
    /\ parentOf \in {f \in [AllIds -> {FS_TREE} \cup AllIds] :
                       \A c \in AllIds :
                         IF c < FirstSubvolId + n
                           THEN f[c] = FS_TREE \/ f[c] < c
                           ELSE f[c] = FS_TREE}

NoIterators ==
  /\ it = [s \in Slots |-> NoIterator]
  /\ obs = [s \in Slots |-> NoObs]
  /\ fds = {}

Idle ==
  /\ NoIterators
  /\ dflt = FS_TREE
  /\ deleted = << >>
  /\ call = NoCall
  /\ qg = NoQgroupInherit
  /\ trans = NoTrans
  /\ pump = NoPump

\* An unchanging filesystem whose searches succeed.
Init ==
  /\ TreeInit(MaxSubvols)
  /\ env = [faultsLeft |-> 0, changed |-> FALSE]
  /\ Idle

Creates(s) ==
  \E loc \in Locations, top \in Tops, post_order \in BOOLEAN :
    \/ CreateSubvolumeIterator(s, loc, top, post_order)
    \/ CreateSubvolumeIteratorFd(s, loc, top, post_order)
    \/ CreateSubvolumeInfoIterator(s, loc, top, post_order)
    \/ CreateSubvolumeInfoIteratorFd(s, loc, top, post_order)

\* One iterator, of either flavor, used by one caller in any call order.
Next ==
  \/ Creates(1)
  \/ HasNext(1)
  \/ HasNextInfo(1)
  \/ GetNext(1)
  \/ GetNextInfo(1)

Spec == Init /\ [][Next]_vars

\* The same, while the filesystem may lose subvolumes and searches may fail.
InitFault ==
  /\ TreeInit(MaxFaultSubvols)
  /\ env = [faultsLeft |-> MaxFaults, changed |-> FALSE]
  /\ Idle

NextFault ==
  \/ \E loc \in Locations, top \in Tops, post_order \in BOOLEAN :
       \/ CreateSubvolumeIterator(1, loc, top, post_order)
       \/ CreateSubvolumeInfoIterator(1, loc, top, post_order)
  \/ HasNext(1)
  \/ HasNextInfo(1)
  \/ GetNext(1)
  \/ GetNextInfo(1)
  \/ \E c \in AllIds : DeleteMeanwhile(c)

SpecFault == InitFault /\ [][NextFault]_vars

\* Two iterators over an unchanging filesystem, a SubvolumeIterator and a
\* SubvolumeInfoIterator made with the same top and order, each driven by
\* `for HasNext() { GetNext() }`, the two loops interleaved in any way.
NextPair ==
  \/ \E loc \in Locations, top \in Tops, post_order \in BOOLEAN :
       \/ CreateSubvolumeIterator(1, loc, top, post_order)
       \/ /\ obs[1].made
          /\ obs[1].root = (IF top = 0 THEN loc[1] ELSE top)
          /\ obs[1].post = post_order
          /\ CreateSubvolumeInfoIterator(2, loc, top, post_order)
  \/ \E s \in Slots :
       \/ ~Pending(s) /\ obs[s].ret # "false" /\ HasNext(s)
       \/ ~Pending(s) /\ obs[s].ret # "false" /\ HasNextInfo(s)
       \/ Pending(s) /\ GetNext(s)
       \/ Pending(s) /\ GetNextInfo(s)

SpecPair == Init /\ [][NextPair]_vars

\* The life of two iterators over an unchanging filesystem: the first made
\* by any constructor from any location with top = 0 and driven by the loop
\* until it is destroyed, the second made after it from the mount point, by
\* path or by descriptor; Destroy at any time, Fd on the first at any time,
\* and any method again after Destroy.
InitLife ==
  /\ TreeInit(MaxFaultSubvols)
  /\ env = [faultsLeft |-> 0, changed |-> FALSE]
  /\ Idle

InLoop(s) == obs[s].destroyed \/ (~Pending(s) /\ obs[s].ret # "false")

NextLife ==
  \/ \E loc \in Locations, post_order \in BOOLEAN :
       \/ CreateSubvolumeIterator(1, loc, 0, post_order)
       \/ CreateSubvolumeIteratorFd(1, loc, 0, post_order)
       \/ CreateSubvolumeInfoIterator(1, loc, 0, post_order)
       \/ CreateSubvolumeInfoIteratorFd(1, loc, 0, post_order)
  \/ obs[1].made /\ CreateSubvolumeIterator(2, Mount, 0, FALSE)
  \/ obs[1].made /\ CreateSubvolumeInfoIteratorFd(2, Mount, 0, FALSE)
  \/ InLoop(1) /\ HasNext(1)
  \/ InLoop(1) /\ HasNextInfo(1)
  \/ (obs[1].destroyed \/ Pending(1)) /\ GetNext(1)
  \/ (obs[1].destroyed \/ Pending(1)) /\ GetNextInfo(1)
  \/ \E s \in Slots :
       \/ Destroy(s)
       \/ DestroyInfo(s)
  \/ Fd(1)
  \/ FdInfo(1)

SpecLife == InitLife /\ [][NextLife]_vars

\* The status-code table: every code is translated by getError, the error
\* translated back by GetCError.
InitTable ==
  /\ TreeInit(0)
  /\ env = [faultsLeft |-> 0, changed |-> FALSE]
  /\ NoIterators
  /\ dflt = FS_TREE
  /\ deleted = << >>
  /\ qg = NoQgroupInherit
  /\ trans = NoTrans
  /\ pump = NoPump
  /\ call \in {Untranslated(n) : n \in Codes}

NextTable ==
  \/ Call_getError
  \/ Call_GetCError
  \/ Call_getErrorBack
  \/ \E err \in ForeignErrors \cup {Nil} : Call_GetCErrorOf(err)

SpecTable == InitTable /\ [][NextTable]_vars

\* One QgroupInherit: created, ids added, the list read and the
\* specifier destroyed at any time.
InitQgroup ==
  /\ TreeInit(0)
  /\ env = [faultsLeft |-> 0, changed |-> FALSE]
  /\ Idle

NextQgroup ==
  \/ CreateQgroupInherit
  \/ \E groupid \in QgroupIds : AddGroup(groupid)
  \/ GetGroups
  \/ QgroupInherit_Destroy

SpecQgroup == InitQgroup /\ [][NextQgroup]_vars

\* One-shot calls on a filesystem whose default subvolume is the top
\* level: subvolumes are deleted, one at a time or with those beneath
\* them, and cleaned up after a while; paths are tested and the deleted
\* subvolumes listed at any time.
NextOps ==
  \/ \E loc \in Paths, recursive \in BOOLEAN : DeleteSubvolume(loc, recursive)
  \/ \E loc \in Paths : IsSubvolume(loc)
  \/ \E loc \in Locations : IsSubvolumeFd(loc)
  \/ \E loc \in Paths : DeletedSubvolumes(loc)
  \/ \E c \in AllIds : Clean(c)

SpecOps == Init /\ [][NextOps]_vars

\* The default subvolume of an unchanging filesystem, set and read.
NextDefault ==
  \/ \E loc \in Paths, id \in Tops : SetDefaultSubvolume(loc, id)
  \/ \E loc \in Paths : GetDefaultSubvolume(loc)

SpecDefault == Init /\ [][NextDefault]_vars

\* Sync, StartSync and WaitSync by one caller, while files are touched and
\* the kernel commits when it likes.
InitSync ==
  /\ TreeInit(0)
  /\ env = [faultsLeft |-> 0, changed |-> FALSE]
  /\ Idle

NextSync ==
  \/ \E loc \in {Mount, Missing} : Sync(loc)
  \/ \E loc \in {Mount, Missing} : StartSync(loc)
  \/ \E loc \in {Mount, Missing}, transid \in 0 .. (MaxGeneration + 1) : WaitSync(loc, transid)
  \/ WaitSyncReturn
  \/ Touch
  \/ KernelCommit

SpecSync == InitSync /\ [][NextSync]_vars

\* One iterator made from the mount point with top = 0 and used in any call
\* order, Fd and Destroy included, while searches may fail.
NextSteps ==
  \/ \E post_order \in BOOLEAN :
       \/ CreateSubvolumeIterator(1, Mount, 0, post_order)
       \/ CreateSubvolumeInfoIterator(1, Mount, 0, post_order)
  \/ HasNext(1)
  \/ HasNextInfo(1)
  \/ GetNext(1)
  \/ GetNextInfo(1)
  \/ Destroy(1)
  \/ DestroyInfo(1)
  \/ Fd(1)
  \/ FdInfo(1)

SpecSteps == InitFault /\ [][NextSteps]_vars

\* Two iterators over an unchanging filesystem, made from the mount point
\* with any two tops and orders, the second of either flavor, each driven
\* by `for HasNext() { GetNext() }`, the two loops interleaved in any way.
NextIndep ==
  \/ \E top \in {FS_TREE} \cup live, post_order \in BOOLEAN :
       \/ CreateSubvolumeIterator(1, Mount, top, post_order)
       \/ CreateSubvolumeIterator(2, Mount, top, post_order)
       \/ CreateSubvolumeInfoIterator(2, Mount, top, post_order)
  \/ \E s \in Slots :
       \/ ~Pending(s) /\ obs[s].ret # "false" /\ HasNext(s)
       \/ ~Pending(s) /\ obs[s].ret # "false" /\ HasNextInfo(s)
       \/ Pending(s) /\ GetNext(s)
       \/ Pending(s) /\ GetNextInfo(s)

SpecIndep == InitLife /\ [][NextIndep]_vars

\* One channel-based iterator made from the mount point or from a plain
\* directory, its goroutine, and one consumer that receives until the
\* channel is closed or gives up before; Destroy is called at any time;
\* searches may fail.
NextChan ==
  \/ \E loc \in {Mount, << FS_TREE, FALSE >>}, post_order \in BOOLEAN :
       ChanCreateSubvolumeIterator(loc, 0, post_order)
  \/ SubvolumeIterator_Next
  \/ SubvolumeIterator_NextInfo
  \/ PumpNext
  \/ ConsumerAsk
  \/ ConsumerSeesClose
  \/ ConsumerStops
  \/ SubvolumeIterator_Destroy

SpecChan == InitFault /\ [][NextChan]_vars

\* ------------------------------------------------------------ properties
\* Subvolume b lies inside subvolume a, at any depth.
RECURSIVE IsUnder(_, _)
IsUnder(b, a) ==
  /\ b \in AllIds
  /\ \/ parentOf[b] = a
     \/ IsUnder(parentOf[b], a)

\* The subvolumes beneath x.
Beneath(x) == {c \in live : IsUnder(c, x)}

\* The path of c from x, for c beneath x.
RECURSIVE RelPath(_, _)
RelPath(x, c) ==
  IF parentOf[c] = x THEN Name(c) ELSE RelPath(x, parentOf[c]) \o "/" \o Name(c)

\* A GetNext return <<result, error>> that carries a result.
IsResult(g) == g[1] # NilPtr /\ g[2] = Nil
\* The subvolume id of a result, of either flavor.
ResultId(s, g) == IF it[s].kind = "info" THEN g[1][1].Info.Id ELSE g[1][1].Id
ResultPath(g) == g[1][1].Path

\* The iterators the caller made successfully.
Made == {s \in Slots : obs[s].made /\ obs[s].err = Nil}
\* Those driven by the loop `for HasNext() { GetNext() }` so far.
Looped == {s \in Made : obs[s].strict}
GotIdx(s) == 1 .. Len(obs[s].got)

\* C1: in a pre-order traversal of an unchanging tree driven by the loop,
\* when the result for a subvolume B is returned, the result for every
\* subvolume A beneath the root that B is nested under was returned before.
C1_PreOrder ==
  \A s \in Looped :
    ~obs[s].post =>
      \A j \in GotIdx(s) :
        /\ IsResult(obs[s].got[j])
        /\ \A a \in Beneath(obs[s].root) :
             IsUnder(ResultId(s, obs[s].got[j]), a) =>
               \E i \in 1 .. (j - 1) : ResultId(s, obs[s].got[i]) = a

C1_Witness ==
  \E s \in Looped :
    /\ ~obs[s].post
    /\ obs[s].ret = "false"
    /\ \E i, j \in GotIdx(s) :
         i < j /\ IsUnder(ResultId(s, obs[s].got[j]), ResultId(s, obs[s].got[i]))

\* C2: in a post-order traversal of an unchanging tree driven by the loop,
\* when the result for a subvolume A is returned, the result for every
\* subvolume B nested under A was returned before.
C2_PostOrder ==
  \A s \in Looped :
    obs[s].post =>
      \A j \in GotIdx(s) :
        /\ IsResult(obs[s].got[j])
        /\ \A b \in Beneath(ResultId(s, obs[s].got[j])) :
             \E i \in 1 .. (j - 1) : ResultId(s, obs[s].got[i]) = b

C2_Witness ==
  \E s \in Looped :
    /\ obs[s].post
    /\ obs[s].ret = "false"
    /\ \E i, j \in GotIdx(s) :
         i < j /\ IsUnder(ResultId(s, obs[s].got[i]), ResultId(s, obs[s].got[j]))

\* C3: every result an iterator rooted at X returns, in any call order, is
\* a subvolume beneath X, never X itself, with its path relative to X.
C3_Scoping ==
  \A s \in Made :
    \A j \in GotIdx(s) :
      IsResult(obs[s].got[j]) =>
        LET id == ResultId(s, obs[s].got[j])
        IN /\ id # obs[s].root
           /\ id \in Beneath(obs[s].root)
           /\ ResultPath(obs[s].got[j]) = RelPath(obs[s].root, id)

\* Rooted at 256 (subvol1), subvol1/subvol2 is returned as subvol2.
C3_Witness ==
  \E s \in Made :
    /\ obs[s].root = FirstSubvolId
    /\ \E j \in GotIdx(s) :
         /\ IsResult(obs[s].got[j])
         /\ ResultId(s, obs[s].got[j]) = FirstSubvolId + 1
         /\ ResultPath(obs[s].got[j]) = "subvol2"

\* C4: when the loop over an unchanging tree ends, it has returned one
\* result for every subvolume beneath the root and no other, none twice,
\* each with the path and id of its subvolume and a nil error.
C4_Complete ==
  \A s \in Looped :
    obs[s].ret = "false" =>
      /\ Len(obs[s].got) = Cardinality(Beneath(obs[s].root))
      /\ {ResultId(s, obs[s].got[j]) : j \in GotIdx(s)} = Beneath(obs[s].root)
      /\ \A j \in GotIdx(s) :
           /\ IsResult(obs[s].got[j])
           /\ ResultPath(obs[s].got[j]) =
                RelPath(obs[s].root, ResultId(s, obs[s].got[j]))

C4_Witness ==
  \E s \in Looped :
    /\ obs[s].ret = "false"
    /\ Len(obs[s].got) = MaxSubvols
    /\ Cardinality(Beneath(obs[s].root)) = MaxSubvols

\* C5: once HasNext has returned false, every later HasNext returns false,
\* every later GetNext returns (nil, ErrStopIteration), and the caller gets
\* no further result, whatever the filesystem does meanwhile.
C5_ExhaustionIdempotent ==
  [][\A s \in Slots :
       obs[s].ret = "false" =>
         /\ obs'[s].ret = "false"
         /\ obs'[s].lastGot \in {NoGot, << NilPtr, ErrStopIteration >>}
         /\ obs'[s].got = obs[s].got]_vars

\* All results were returned, then HasNext was called twice more and GetNext
\* after it.
C5_Witness ==
  \E s \in Made :
    /\ ~env.changed
    /\ Cardinality(Beneath(obs[s].root)) >= 1
    /\ Len(obs[s].got) = Cardinality(Beneath(obs[s].root))
    /\ obs[s].nsteps = Len(obs[s].got) + 2
    /\ obs[s].ret = "false"
    /\ obs[s].lastGot = << NilPtr, ErrStopIteration >>

\* C6: whatever the call order, HasNext called again before GetNext
\* included, a caller that has fetched results and reached the end of an
\* unchanging tree has got every subvolume beneath the root, none twice.
C6_RepeatedHasNext ==
  \A s \in Made :
    (obs[s].ret = "false" /\ Len(obs[s].got) >= 1) =>
      /\ Len(obs[s].got) = Cardinality(Beneath(obs[s].root))
      /\ {ResultId(s, obs[s].got[j]) : j \in GotIdx(s)} = Beneath(obs[s].root)

\* C7: a GetNext call leaves the iterator struct and the C iterator as they
\* were and issues no step; it returns the cached error, with the cached
\* result when that error is nil, and so the same as the GetNext before it.
C7_GetNextPure ==
  [][\A s \in Slots :
       obs'[s].lastGot # NoGot =>
         /\ it'[s] = it[s]
         /\ obs'[s].nsteps = obs[s].nsteps
         /\ obs'[s].lastGot =
              << IF it[s].lastErr # Nil THEN NilPtr ELSE it[s].lastResult,
                 it[s].lastErr >>
         /\ obs[s].lastGot # NoGot => obs'[s].lastGot = obs[s].lastGot]_vars

\* GetNext called twice after a HasNext that cached a result.
C7_Witness ==
  \E s \in Made :
    /\ obs[s].regot
    /\ IsResult(obs[s].lastGot)
    /\ obs[s].lastGot[1] = it[s].lastResult

\* C8: after a step that failed with a code other than the stop sentinel,
\* HasNext has returned true, the error of that code is cached, GetNext
\* returns (nil, that error), and the iterator is still usable.
C8_StepError ==
  \A s \in Made :
    (obs[s].ret # "none"
       /\ obs[s].code \notin {BTRFS_UTIL_OK, BTRFS_UTIL_ERROR_STOP_ITERATION}) =>
      /\ obs[s].ret = "true"
      /\ it[s].lastErr = errorMap[obs[s].code]
      /\ it[s].lastErr \notin {Nil, ErrStopIteration}
      /\ obs[s].lastGot \in {NoGot, << NilPtr, it[s].lastErr >>}
      /\ it[s].iterator # NilPtr

\* The loop got an error and, from a later step, a result.
C8_Witness ==
  \E s \in Looped :
    \E i, j \in GotIdx(s) :
      /\ i < j
      /\ obs[s].got[i][1] = NilPtr
      /\ obs[s].got[i][2] \notin {Nil, ErrStopIteration}
      /\ IsResult(obs[s].got[j])

\* C9: a SubvolumeIterator and a SubvolumeInfoIterator with the same root
\* and order over the same unchanging tree return the same paths in the
\* same order, Id equal to Info.Id, and as many results.
C9_FlavorsAgree ==
  (/\ Made = Slots
   /\ obs[1].root = obs[2].root
   /\ obs[1].post = obs[2].post
   /\ it[1].kind = "id"
   /\ it[2].kind = "info") =>
    /\ \A i \in GotIdx(1) \cap GotIdx(2) :
         /\ IsResult(obs[1].got[i])
         /\ IsResult(obs[2].got[i])
         /\ obs[1].got[i][1][1].Path = obs[2].got[i][1][1].Path
         /\ obs[1].got[i][1][1].Id = obs[2].got[i][1][1].Info.Id
    /\ (obs[1].ret = "false" /\ obs[2].ret = "false") =>
         Len(obs[1].got) = Len(obs[2].got)

C9_Witness ==
  /\ Made = Slots
  /\ it[1].kind = "id"
  /\ it[2].kind = "info"
  /\ obs[1].ret = "false"
  /\ obs[2].ret = "false"
  /\ Len(obs[1].got) >= 2
  /\ Len(obs[2].got) >= 2

\* The first element of the traversal beneath x: the lowest-numbered
\* subvolume directly inside x, or in post-order the first subvolume that
\* holds no other, going down through the lowest-numbered ones.
Children(x) == {c \in live : parentOf[c] = x}
MinOf(S) == CHOOSE m \in S : \A y \in S : m <= y
RECURSIVE FirstLeaf(_)
FirstLeaf(x) == IF Children(x) = {} THEN x ELSE FirstLeaf(MinOf(Children(x)))
FirstOf(x, post) == IF post THEN FirstLeaf(MinOf(Children(x))) ELSE MinOf(Children(x))

\* C10: an iterator made by any of the four constructors has, before the
\* first HasNext, issued no step and cached neither result nor error, its
\* C iterator is at the root; and the first HasNext that returns true has
\* cached the first element of the traversal.
C10_Fresh ==
  \A s \in Made :
    /\ obs[s].ret = "none" =>
         /\ obs[s].nsteps = 0
         /\ it[s].lastResult = NilPtr
         /\ it[s].lastErr = Nil
         /\ obs[s].lastGot \in {NoGot, << NilPtr, Nil >>}
         /\ it[s].iterator[1].stack = << SearchEntry(obs[s].root, "") >>
    /\ (obs[s].ret = "true" /\ obs[s].nsteps = 1) =>
         /\ it[s].lastErr = Nil
         /\ ResultId(s, << it[s].lastResult, Nil >>) = FirstOf(obs[s].root, obs[s].post)

\* A post-order SubvolumeInfoIterator made from a file descriptor, after
\* its first HasNext.
C10_Witness ==
  \E s \in Made :
    /\ it[s].kind = "info"
    /\ "CLOSE_FD" \notin it[s].iterator[1].flags
    /\ obs[s].post
    /\ obs[s].ret = "true"
    /\ obs[s].nsteps = 1
    /\ Cardinality(Beneath(obs[s].root)) >= 2

\* C11: construction with top = 0 from the root directory of a subvolume
\* succeeds, from a plain directory it returns an error and no C iterator;
\* with a nonzero top it succeeds from any location, by all constructors.
C11_Construction ==
  \A s \in Slots :
    obs[s].made =>
      /\ (obs[s].top = 0 /\ obs[s].isRoot) => (obs[s].err = Nil /\ it[s].iterator # NilPtr)
      /\ (obs[s].top = 0 /\ ~obs[s].isRoot) => (obs[s].err # Nil /\ it[s].iterator = NilPtr)
      /\ obs[s].top # 0 => (obs[s].err = Nil /\ it[s].iterator # NilPtr)

\* CreateSubvolumeInfoIterator(foo, 0, _) has returned an error.
C11_Witness ==
  \E s \in Slots :
    /\ obs[s].made
    /\ it[s].kind = "info"
    /\ obs[s].own = "none"
    /\ obs[s].top = 0
    /\ ~obs[s].isRoot
    /\ obs[s].err = ErrNotSubvolume

\* C12: every HasNext, Fd or Destroy call made on an iterator after its
\* Destroy is reported to the caller as an error and hands no nil handle
\* to the library.
C12_UseAfterRelease ==
  \A s \in Slots :
    \A u \in obs[s].after : u.reported /\ ~u.nilHandle

\* C13: a GetNext call after Destroy does not return the result that was
\* cached when Destroy was called.
C13_ReleaseInvalidates ==
  \A s \in Slots :
    (obs[s].destroyed /\ obs[s].gotAfter # NoGot) =>
      ~(IsResult(obs[s].gotAfter) /\ obs[s].gotAfter[1] = obs[s].cached)

\* C14: a descriptor the caller handed in stays open, whatever is created
\* and destroyed; the descriptors opened by constructors that are open are
\* those of the path-built iterators not yet destroyed, so none stays open
\* once they are all destroyed.
C14_HandleOwnership ==
  /\ \A s \in Slots :
       obs[s].own = "caller" => Descriptor(obs[s].fd, "caller") \in fds
  /\ {r \in fds : r.by = "iterator"} =
       {Descriptor(obs[s].fd, "iterator") :
          s \in {t \in Slots : obs[t].own = "iterator" /\ ~obs[t].destroyed}}

\* Both iterators destroyed, one built from a path and one from a
\* descriptor: only the caller's descriptor is open.
C14_Witness ==
  /\ \A s \in Slots : obs[s].destroyed /\ obs[s].err = Nil
  /\ \E s, t \in Slots : obs[s].own = "iterator" /\ obs[t].own = "caller"
  /\ Cardinality(fds) = 1

\* C15: getError(0) is nil, and getError of every nonzero code, in the
\* table or not, is a non-nil error.
C15_Translation ==
  call.op \in {"getError", "GetCError"} =>
    /\ call.errInt = 0 => call.err = Nil
    /\ call.errInt # 0 => call.err # Nil

\* C16: no QgroupInherit call ends the process, and GetGroups returns the
\* ids whose AddGroup succeeded so far, in call order, duplicates kept.
C16_GroupOrder ==
  /\ ~qg.fault
  /\ qg.got # NoGot => qg.got[1] = qg.added

\* C17: IsSubvolume and IsSubvolumeFd return (true, nil) exactly for the
\* root directory of a subvolume, false with a non-nil error for a plain
\* directory, and never true with a non-nil error.
C17_IsSubvolume ==
  call.op \in {"IsSubvolume", "IsSubvolumeFd"} =>
    /\ (call.ok /\ call.err = Nil) <=> (call.loc # Missing /\ call.loc[2])
    /\ (call.loc # Missing /\ ~call.loc[2]) => (~call.ok /\ call.err # Nil)
    /\ ~(call.ok /\ call.err # Nil)

\* IsSubvolumeFd on the plain directory foo has returned (false,
\* ErrNotSubvolume).
C17_Witness ==
  /\ call.op = "IsSubvolumeFd"
  /\ call.loc = << FS_TREE, FALSE >>
  /\ ~call.ok
  /\ call.err = ErrNotSubvolume

\* C18: DeleteSubvolume of a subvolume beneath the top level: without
\* recursive it fails and deletes nothing when the subvolume holds
\* subvolumes, and succeeds on one that holds none; with recursive, on
\* success, every subvolume beneath it was deleted before the subvolume
\* that holds it and the target last, and none of them exists any more.
C18_DeleteSubvolume ==
  (call.op = "DeleteSubvolume" /\ call.loc[2] /\ call.loc[1] \in AllIds) =>
    LET x == call.loc[1]
        kids == {c \in call.before : parentOf[c] = x}
        under == {c \in call.before : IsUnder(c, x)}
        n == Len(call.gone)
    IN /\ (~call.arg /\ kids # {}) => (call.err # Nil /\ call.gone = << >> /\ x \in live)
       /\ (~call.arg /\ kids = {}) => (call.err = Nil /\ call.gone = << x >>)
       /\ (call.arg /\ call.err = Nil) =>
            /\ n = Cardinality(under) + 1
            /\ Range(call.gone) = under \cup {x}
            /\ call.gone[n] = x
            /\ \A i, j \in 1 .. n : IsUnder(call.gone[i], call.gone[j]) => i < j
       /\ call.err = Nil => (under \cup {x}) \cap live = {}

\* A recursive delete of a subvolume that held two others has succeeded.
C18_Witness ==
  /\ call.op = "DeleteSubvolume"
  /\ call.arg
  /\ call.err = Nil
  /\ Len(call.gone) = MaxSubvols
  /\ \E c \in Range(call.gone) : parentOf[c] = call.loc[1]

\* C19: GetDefaultSubvolume after SetDefaultSubvolume(path, id) returns id,
\* or for id = 0 the id of the subvolume at path, when the set succeeded,
\* and the default there was before when it failed; the set fails for
\* id = 0 and a plain directory, and leaves the default as it was.
C19_DefaultSubvolume ==
  /\ (call.op = "GetDefaultSubvolume" /\ call.err = Nil /\ call.lastSet # << >>) =>
       LET t == call.lastSet[1]
       IN /\ t.err = Nil => call.id = (IF t.arg # 0 THEN t.arg ELSE t.loc[1])
          /\ t.err # Nil => call.id = t.was
  /\ (call.op = "SetDefaultSubvolume" /\ call.arg = 0
        /\ call.loc # Missing /\ ~call.loc[2]) =>
       (call.err # Nil /\ dflt = call.was)

\* The default was subvol1, SetDefaultSubvolume(foo, 0) failed, and
\* GetDefaultSubvolume has returned 256.
C19_Witness ==
  /\ call.op = "GetDefaultSubvolume"
  /\ call.lastSet # << >>
  /\ call.lastSet[1].loc = << FS_TREE, FALSE >>
  /\ call.lastSet[1].arg = 0
  /\ call.lastSet[1].err = ErrNotSubvolume
  /\ call.id = FirstSubvolId

\* C20: DeletedSubvolumes on a path of the filesystem returns a nil error
\* and the ids of the subvolumes deleted and not yet cleaned up, each once,
\* in ascending order; the empty list when there is none.
C20_DeletedSubvolumes ==
  (call.op = "DeletedSubvolumes" /\ call.loc # Missing) =>
    /\ call.err = Nil
    /\ Len(call.ids) = Len(call.pending)
    /\ Range(call.ids) = Range(call.pending)
    /\ \A i, j \in DOMAIN call.ids : i < j => call.ids[i] < call.ids[j]
    /\ call.pending = << >> => call.ids = << >>

\* subvol2 was deleted before subvol1, and [256, 257] has been returned.
C20_Witness ==
  /\ call.op = "DeletedSubvolumes"
  /\ call.pending = << FirstSubvolId + 1, FirstSubvolId >>
  /\ call.ids = << FirstSubvolId, FirstSubvolId + 1 >>

C22_TopValidated ==
  \A s \in Slots :
    (obs[s].made /\ obs[s].top # 0 /\ obs[s].top \notin ({FS_TREE} \cup live)) =>
      /\ obs[s].err \in {ErrNotSubvolume, ErrSubvolumeNotFound}
      /\ it[s].iterator = NilPtr

\* The ids of the results the loop has returned, in the order returned.
GotIds(s) == [j \in GotIdx(s) |-> ResultId(s, obs[s].got[j])]

\* C23: in a traversal of an unchanging tree driven by the loop, in either
\* order, of two subvolumes that share their parent the one with the lower
\* id is returned first; for root > subvol1(256) > {subvol2(257),
\* subvol3(258)} the whole traversal from the top level is 256, 257, 258 in
\* pre-order and 257, 258, 256 in post-order.
C23_SiblingOrder ==
  \A s \in Looped :
    /\ \A i, j \in GotIdx(s) :
         (/\ i < j
          /\ IsResult(obs[s].got[i])
          /\ IsResult(obs[s].got[j])
          /\ parentOf[ResultId(s, obs[s].got[i])] = parentOf[ResultId(s, obs[s].got[j])])
           => ResultId(s, obs[s].got[i]) < ResultId(s, obs[s].got[j])
    /\ (/\ obs[s].ret = "false"
        /\ obs[s].root = FS_TREE
        /\ live = {256, 257, 258}
        /\ parentOf[256] = FS_TREE /\ parentOf[257] = 256 /\ parentOf[258] = 256)
         => GotIds(s) = IF obs[s].post THEN << 257, 258, 256 >> ELSE << 256, 257, 258 >>

\* The post-order loop over root > subvol1 > {subvol2, subvol3} has ended.
C23_Witness ==
  \E s \in Looped :
    /\ obs[s].post
    /\ obs[s].ret = "false"
    /\ obs[s].root = FS_TREE
    /\ live = {256, 257, 258}
    /\ parentOf[256] = FS_TREE /\ parentOf[257] = 256 /\ parentOf[258] = 256
    /\ Len(obs[s].got) = 3

\* C24: every HasNext call that returns has issued exactly one step, taken
\* from the cursor the previous step left, and what it reports is what that
\* one step returned, a failure included (no second attempt is made); no
\* other call issues a step.
C24_OneStepPerCall ==
  [][\A s \in Slots :
       IF obs'[s].asked = obs[s].asked + 1
         THEN /\ obs'[s].nsteps = obs[s].nsteps + 1
              /\ \E failAt \in 0 .. MaxSearches :
                   LET r == OneStep(it[s].kind, it[s].iterator[1], failAt)
                   IN /\ env'.faultsLeft < env.faultsLeft <=> failAt > 0
                      /\ failAt > 0 => r.code = BTRFS_UTIL_ERROR_SEARCH_FAILED
                      /\ it'[s].iterator = Ptr(r.iter)
                      /\ obs'[s].code = r.code
                      /\ obs'[s].ret = (IF r.code = BTRFS_UTIL_ERROR_STOP_ITERATION
                                          THEN "false" ELSE "true")
         ELSE obs'[s].nsteps = obs[s].nsteps]_vars

\* A search of a HasNext has failed, and GetNext, Fd and Destroy were
\* called: one step was issued.
C24_Witness ==
  \E s \in Slots :
    /\ obs[s].destroyed
    /\ obs[s].fdRet # NoFd
    /\ obs[s].code = BTRFS_UTIL_ERROR_SEARCH_FAILED
    /\ obs[s].lastGot # NoGot
    /\ obs[s].asked = 1
    /\ obs[s].nsteps = 1

\* The <<id, path>> pairs an iterator returns from the cursor c on when it
\* is the only one stepped.
RECURSIVE Alone(_)
Alone(c) ==
  LET r == LibNext(c, 0)
  IN IF r.code # BTRFS_UTIL_OK THEN << >>
     ELSE << << r.id, GoString(r.path) >> >> \o Alone(r.iter)

\* The cursor of an iterator just made beneath root.
FreshCursor(root, post_order) ==
  [flags |-> IteratorFlags(post_order), fd |-> NoFd, stack |-> << SearchEntry(root, "") >>]

\* C25: with two iterators over the same or different roots of an unchanging
\* filesystem stepped in any interleaving, what each loop has returned so
\* far is the beginning of the sequence the iterator returns when run
\* alone, and all of it once the loop has ended; and a call on one iterator
\* changes neither the struct (cursor, cached result, cached error) nor
\* what was returned of the other.
C25_Independent ==
  /\ [](\A s \in Looped :
          LET alone == Alone(FreshCursor(obs[s].root, obs[s].post))
          IN /\ Len(obs[s].got) <= Len(alone)
             /\ \A j \in GotIdx(s) :
                  /\ IsResult(obs[s].got[j])
                  /\ << ResultId(s, obs[s].got[j]), ResultPath(obs[s].got[j]) >> = alone[j]
             /\ obs[s].ret = "false" => Len(obs[s].got) = Len(alone))
  /\ [][\A s, t \in Slots :
          (s # t /\ obs'[s] # obs[s]) => (it'[t] = it[t] /\ obs'[t] = obs[t])]_vars

\* Two iterators over different roots, both in the middle of their loops:
\* the first has returned one result and has more to return, the second has
\* returned a result meanwhile.
C25_Witness ==
  /\ Looped = Slots
  /\ obs[1].root # obs[2].root
  /\ Len(obs[1].got) = 1
  /\ Len(Alone(FreshCursor(obs[1].root, obs[1].post))) >= 2
  /\ Len(obs[2].got) = 1
  /\ obs[2].ret = "true"

\* C26: a GetNext after a HasNext never returns a result together with an
\* error; after a HasNext that returned true it returns a result and a nil
\* error, or no result and an error that is not ErrStopIteration; after a
\* HasNext that returned false it returns (nil, ErrStopIteration); and
\* HasNext returns false exactly when its step returned the stop code.
C26_OneOutcome ==
  \A s \in Slots :
    /\ obs[s].ret # "none" =>
         (obs[s].ret = "false" <=> obs[s].code = BTRFS_UTIL_ERROR_STOP_ITERATION)
    /\ (obs[s].ret # "none" /\ obs[s].lastGot # NoGot) =>
         /\ ~(obs[s].lastGot[1] # NilPtr /\ obs[s].lastGot[2] # Nil)
         /\ obs[s].ret = "true" =>
              \/ IsResult(obs[s].lastGot)
              \/ /\ obs[s].lastGot[1] = NilPtr
                 /\ obs[s].lastGot[2] \notin {Nil, ErrStopIteration}
         /\ obs[s].ret = "false" => obs[s].lastGot = << NilPtr, ErrStopIteration >>

\* A HasNext whose step failed after an earlier result returned true, and
\* GetNext returned no result and the error.
C26_Witness ==
  \E s \in Slots :
    /\ obs[s].ret = "true"
    /\ obs[s].code = BTRFS_UTIL_ERROR_SEARCH_FAILED
    /\ obs[s].lastGot = << NilPtr, ErrSearchFailed >>
    /\ Len(obs[s].got) >= 2
    /\ IsResult(obs[s].got[1])

\* The <<id, path>> pairs of the elements the consumer has received.
RecvIds ==
  [j \in 1 .. Len(pump.recv) |->
     << IF pump.kind = "info" THEN pump.recv[j].info.Id ELSE pump.recv[j].id,
        pump.recv[j].path >>]

\* C27: while a single consumer receives from the channel of Next / NextInfo
\* until it is closed (and Destroy is not called meanwhile), the elements
\* received are those of the steps issued, each once and in their order,
\* every step that did not return the stop code, a failed one included, is
\* received or is being sent, carrying the error of its code; the channel is
\* closed at most once and only after the step that returned the stop code;
\* and when the consumer finds it closed over an unchanging tree it has
\* received the whole traversal.
C27_Delivery ==
  (pump.kind # "none" /\ ~pump.destroyed /\ pump.consumer # "stopped") =>
    /\ pump.closed <= 1
    /\ pump.closed = 1 => pump.last = BTRFS_UTIL_ERROR_STOP_ITERATION
    /\ Len(pump.recv) <= Len(pump.log)
    /\ \A j \in 1 .. Len(pump.recv) :
         /\ pump.recv[j] = pump.log[j].elem
         /\ pump.recv[j].err = getError(pump.log[j].code)
    /\ Len(pump.log) = Len(pump.recv) + (IF pump.pc = "send" THEN 1 ELSE 0)
    /\ (pump.consumer = "done" /\ ~env.changed) =>
         RecvIds = Alone(FreshCursor(pump.root, pump.post))

\* C28: once Next / NextInfo has started the goroutine, it is never left
\* blocked in a send after the consumer has stopped receiving (stopped for
\* good, so a goroutine that cannot move then never will), it issues no step
\* after Destroy was called, and it has never issued more steps than the
\* consumer has begun receives.
C28_PumpLifetime ==
  pump.kind # "none" =>
    /\ (pump.consumer = "stopped" /\ pump.pc = "send") => ENABLED PumpNext
    /\ pump.afterDestroy = 0
    /\ pump.steps <= pump.asks

\* The 26 errors errors.go names.
NamedErrors == {errorMap[n] : n \in DOMAIN errorMap}

\* C29: the table maps the codes 1..26 to 26 different errors; GetCError of
\* the error getError gave for a code in 1..26 is that code, getError of the
\* code GetCError gave for a named error is that error, and GetCError is 0
\* for nil and for an error that is none of the 26.
C29_RoundTrip ==
  /\ DOMAIN errorMap = 1 .. 26
  /\ \A m, n \in DOMAIN errorMap : m # n => errorMap[m] # errorMap[n]
  /\ (call.op \in {"GetCError", "getErrorBack"} /\ call.errInt \in 1 .. 26) =>
       call.code = call.errInt
  /\ (call.op = "getErrorBack" /\ call.err \in NamedErrors) => call.back = call.err
  /\ (call.op \in {"GetCError", "getErrorBack", "GetCErrorOf"} /\ call.err \notin NamedErrors) =>
       call.code = 0

\* Code 26 was translated to its error, back to 26 and to its error again.
C29_Witness ==
  /\ call.op = "getErrorBack"
  /\ call.errInt = 26
  /\ call.err = "ErrFsInfoFailed"
  /\ call.code = 26
  /\ call.back = "ErrFsInfoFailed"

\* C30: after Destroy the caller's QgroupInherit holds a nil handle, no
\* AddGroup, GetGroups or Destroy is made on a handle whose block was
\* released, and until Destroy the handle names the block the library
\* last left the list in.
C30_Lifecycle ==
  qg.made =>
    /\ qg.destroys > 0 => qg.inherit = NilPtr
    /\ ~qg.onFreed
    /\ qg.destroys = 0 => ~qg.heap[qg.inherit[1]].freed

====
